---- MODULE Spec2Model ----
(***************************************************************************)
(* Completion orchestrator and stream transcoder of the doubao gateway     *)
(* (src/api/controllers/chat.ts): createCompletion, createCompletionStream,*)
(* receiveStream and createTransStream, for one logical request.           *)
(*                                                                         *)
(* The upstream event stream is a byte sequence.  One event frame          *)
(* `data: <json>\n\n` is written as a tag byte (which JSON envelope it is),  *)
(* the UTF-8 bytes of the delta text it carries and the frame end "$"      *)
(* (the blank line).  The text alphabet is the two-byte character "U"      *)
(* (bytes "L" "C") and the newline "n".  "?" is U+FFFD.                    *)
(***************************************************************************)
EXTENDS Integers, Sequences, FiniteSets, TLC

\* ---------------------------------------------------------------- bounds
\* longest upstream stream, in event frames
MaxFrames == 3

\* ------------------------------------------------------ program constants
MAX_RETRY_COUNT == 3
RETRY_DELAY == 5000

\* the back-off in seconds, as the code logs it (RETRY_DELAY / 1000)
RetryDelaySeconds == RETRY_DELAY \div 1000

\* ------------------------------------------------------- upstream frames
\* k: "D" event_type 2001 (delta; text <<>> is a frame without
\*    message.content), "F" 2001 with is_finish, "T" event_type 2003,
\*    "E" envelope with a code, "X" undecodable JSON, "O" other event_type.
\* cid: the conversation_id the frame's event_data carries ("" = none).
Frame(tag, k, cid, text) == [tag |-> tag, k |-> k, cid |-> cid, text |-> text]

FrameSet ==
  { Frame("d", "D", "", <<"U">>),
    Frame("e", "D", "c1", <<"n">>),
    Frame("m", "D", "c1", <<>>),
    Frame("f", "F", "c2", <<>>),
    Frame("t", "T", "", <<>>),
    Frame("x", "E", "", <<>>),
    Frame("j", "X", "", <<>>),
    Frame("o", "O", "", <<>>) }

Tags == { f.tag : f \in FrameSet }

RECURSIVE SeqsUpTo(_, _)
SeqsUpTo(S, n) ==
  IF n = 0 THEN { <<>> }
  ELSE LET R == SeqsUpTo(S, n - 1)
       IN R \cup { Append(r, x) : r \in { q \in R : Len(q) = n - 1 }, x \in S }

Streams == SeqsUpTo(FrameSet, MaxFrames)

\* ------------------------------------------------------ bytes and text
RECURSIVE EncodeText(_)
EncodeText(t) ==
  IF t = <<>> THEN <<>>
  ELSE (IF Head(t) = "U" THEN <<"L", "C">> ELSE <<Head(t)>>) \o EncodeText(Tail(t))

RECURSIVE Encode(_)
Encode(fs) ==
  IF fs = <<>> THEN <<>>
  ELSE <<Head(fs).tag>> \o EncodeText(Head(fs).text) \o <<"$">> \o Encode(Tail(fs))

\* Buffer.toString(): UTF-8 decoding, U+FFFD for every byte that is not
\* part of a complete character
RECURSIVE Decode(_)
Decode(bs) ==
  IF bs = <<>> THEN <<>>
  ELSE IF Head(bs) = "L"
       THEN IF Len(bs) >= 2 /\ bs[2] = "C"
            THEN <<"U">> \o Decode(Tail(Tail(bs)))
            ELSE <<"?">> \o Decode(Tail(bs))
       ELSE IF Head(bs) = "C"
            THEN <<"?">> \o Decode(Tail(bs))
            ELSE <<Head(bs)>> \o Decode(Tail(bs))

\* buffer.toString().indexOf('�') != -1
HasReplacement(bs) == \E i \in DOMAIN Decode(bs) : Decode(bs)[i] = "?"

\* --------------------------------------------------- eventsource-parser
\* parser.feed(text): the text is added to the parser's pending frame and
\* every frame completed by a blank line is dispatched, in order
RECURSIVE SplitFrames(_, _, _)
SplitFrames(cur, chars, evs) ==
  IF chars = <<>> THEN [pbuf |-> cur, events |-> evs]
  ELSE IF Head(chars) = "$"
       THEN SplitFrames(<<>>, Tail(chars), IF cur = <<>> THEN evs ELSE Append(evs, cur))
       ELSE SplitFrames(Append(cur, Head(chars)), Tail(chars), evs)

ParserFeed(pbuf, chars) == SplitFrames(pbuf, chars, <<>>)

\* JSON.parse of event.data, of event_data and of message.content
ParseEvent(raw) ==
  IF Head(raw) \in Tags /\ \A i \in 2..Len(raw) : raw[i] \in {"U", "n"}
  THEN LET f == CHOOSE g \in FrameSet : g.tag = Head(raw)
       IN [k |-> f.k, cid |-> f.cid, text |-> Tail(raw)]
  ELSE [k |-> "X", cid |-> "", text |-> <<>>]

\* String.prototype.replace(/\n$/, "")
TrimTrailingNewline(s) ==
  IF s # <<>> /\ s[Len(s)] = "n" THEN SubSeq(s, 1, Len(s) - 1) ELSE s

\* ------------------------------------------------- Promise (buffered mode)
\* resolve / reject settle the promise once; later calls are ignored
Resolve(s) ==
  IF s.promise = "pending" THEN [s EXCEPT !.promise = "resolved"] ELSE s

Reject(s, e) ==
  IF s.promise = "pending" THEN [s EXCEPT !.promise = "rejected", !.err = e] ELSE s

\* ------------------------------------------------------- receiveStream
\* the closure state of one receiveStream call; nEvt counts the events the
\* parser has dispatched to the callback
RecvInit ==
  [temp |-> <<>>, pbuf |-> <<>>, content |-> <<>>, id |-> "", isEnd |-> FALSE,
   promise |-> "pending", err |-> "", nEvt |-> 0]

\* an accumulation that puts the new text in front
PrependText(content, text) == text \o content

\* data.choices[0].message.content += text
AppendText(content, text) == content \o text

\* the terminal branches: latch, trim, resolve
RecvFinish(s) ==
  Resolve([s EXCEPT !.isEnd = TRUE, !.content = TrimTrailingNewline(@)])

\* the parser callback of receiveStream
RecvOnEvent(s, raw) ==
  LET s1 == [s EXCEPT !.nEvt = @ + 1]
      ev == ParseEvent(raw)
  IN IF s.isEnd THEN s1
     ELSE IF ev.k = "X" THEN Reject(s1, "Error")
     ELSE IF ev.k = "E" THEN Reject(s1, "API_REQUEST_FAILED")
     ELSE IF ev.k = "T" THEN RecvFinish(s1)
     ELSE IF ev.k # "D" /\ ev.k # "F" THEN s1
     ELSE IF ev.k = "F" THEN RecvFinish(s1)
     ELSE LET s2 == IF s1.id = "" /\ ev.cid # "" THEN [s1 EXCEPT !.id = ev.cid] ELSE s1
          IN IF ev.text = <<>> THEN s2
             ELSE [s2 EXCEPT !.content = AppendText(@, ev.text)]

RECURSIVE RecvEvents(_, _)
RecvEvents(s, evs) ==
  IF evs = <<>> THEN s ELSE RecvEvents(RecvOnEvent(s, Head(evs)), Tail(evs))

\* stream.on("data") of receiveStream
RecvOnData(s, chunk) ==
  IF HasReplacement(chunk)
  THEN [s EXCEPT !.temp = @ \o chunk]
  ELSE LET p == ParserFeed(s.pbuf, Decode(s.temp \o chunk))
       IN RecvEvents([s EXCEPT !.temp = <<>>, !.pbuf = p.pbuf], p.events)

\* stream.once("close") and stream.once("error") of receiveStream
RecvOnClose(s) == Resolve(s)

RecvOnError(s) == Reject(s, "StreamError")

\* ------------------------------------------------- PassThrough (live mode)
\* an output item: a `data: <json>` chunk, the `data: [DONE]` frame, or the
\* bare "\n\n" the catch branch writes
Chunk(content, fin) == [t |-> "chunk", content |-> content, fin |-> fin]

DoneFrame == [t |-> "done", content |-> <<>>, fin |-> "null"]

BlankFrame == [t |-> "blank", content |-> <<>>, fin |-> "null"]

\* the text of the fallback chunk of a non event-stream response
FallbackText == <<"s", "v", "c">>

\* the `id` an output item carries: a chunk is written with the convId the
\* closure holds at that moment (lines 1370, 1395, 1421, 1452)
IdOf(t, item) == IF item.t = "chunk" THEN t.convId ELSE ""

\* write after end() raises ERR_STREAM_WRITE_AFTER_END on the stream, which
\* destroys it and emits "error" unless it is destroyed already
TsFail(t) ==
  IF t.destroyed THEN t ELSE [t EXCEPT !.destroyed = TRUE, !.errEmitted = TRUE]

TsWrite(t, item) ==
  IF t.ended \/ t.destroyed THEN TsFail(t)
  ELSE [t EXCEPT !.out = Append(@, item), !.ids = Append(@, IdOf(t, item))]

TsEnd(t, item) ==
  IF t.ended \/ t.destroyed THEN TsFail(t)
  ELSE [t EXCEPT !.out = Append(@, item), !.ids = Append(@, IdOf(t, item)),
                 !.ended = TRUE]

\* !transStream.closed && transStream.end(item)
TsEndUnlessClosed(t, item) == IF t.closed THEN t ELSE TsEnd(t, item)

\* --------------------------------------------------- createTransStream
\* the closure state of one createTransStream call; endCalls are the
\* arguments of the endCallback calls made so far, ids the `id` of each
\* item of out
TransIdle ==
  [temp |-> <<>>, pbuf |-> <<>>, convId |-> "", out |-> <<>>, ended |-> FALSE,
   destroyed |-> FALSE, closed |-> FALSE, errEmitted |-> FALSE,
   endCalls |-> <<>>, nEvt |-> 0, ids |-> <<>>]

\* lines 1360-1382: the stream is created and the first chunk written
TransInit == TsWrite(TransIdle, Chunk(<<>>, "null"))

\* a terminal branch that ends the stream without the "stop" chunk
TransFinishNoStop(t) ==
  [TsEndUnlessClosed(t, DoneFrame) EXCEPT !.endCalls = Append(@, t.convId)]

\* the terminal branches: stop chunk, [DONE], endCallback
TransFinish(t) ==
  LET t1 == TsWrite(t, Chunk(<<>>, "stop"))
      t2 == TsEndUnlessClosed(t1, DoneFrame)
  IN [t2 EXCEPT !.endCalls = Append(@, t.convId)]

\* the catch branch of the parser callback
TransCatch(t) == TsEndUnlessClosed(t, BlankFrame)

\* the parser callback of createTransStream
TransOnEvent(t, raw) ==
  LET t1 == [t EXCEPT !.nEvt = @ + 1]
      ev == ParseEvent(raw)
  IN IF ev.k = "X" THEN TransCatch(t1)
     ELSE IF ev.k = "E" THEN TransCatch(t1)
     ELSE IF ev.k = "T" THEN TransFinish(t1)
     ELSE IF ev.k # "D" /\ ev.k # "F" THEN t1
     ELSE LET t2 == IF t1.convId = "" THEN [t1 EXCEPT !.convId = ev.cid] ELSE t1
          IN IF ev.k = "F" THEN TransFinish(t2)
             ELSE IF ev.text = <<>> THEN t2
             ELSE TsWrite(t2, Chunk(ev.text, "null"))

RECURSIVE TransEvents(_, _)
TransEvents(t, evs) ==
  IF evs = <<>> THEN t ELSE TransEvents(TransOnEvent(t, Head(evs)), Tail(evs))

\* stream.on("data") of createTransStream
TransOnData(t, chunk) ==
  IF HasReplacement(chunk)
  THEN [t EXCEPT !.temp = @ \o chunk]
  ELSE LET p == ParserFeed(t.pbuf, Decode(t.temp \o chunk))
       IN TransEvents([t EXCEPT !.temp = <<>>, !.pbuf = p.pbuf], p.events)

\* stream.once("error") and stream.once("close") of createTransStream
TransOnError(t) == TsEndUnlessClosed(t, DoneFrame)

TransOnClose(t) == TsEndUnlessClosed(t, DoneFrame)

\* lines 337-357: the stream substituted for a non event-stream response
TransFallback ==
  [TransIdle EXCEPT !.out = <<Chunk(FallbackText, "stop")>>, !.ids = <<"">>,
                    !.ended = TRUE]

\* ------------------------------------------------------------- state
VARIABLES
  mode,        \* "buffered": createCompletion, "live": createCompletionStream
  pc,          \* where the orchestrator of the request stands
  retryCount,  \* the retryCount argument of the current call
  attempts,    \* how many times the pipeline was started
  elapsed,     \* seconds slept in the current back-off
  ctype,       \* the current response: "none", "failed" (the request threw),
               \* content type "sse" (text/event-stream) or "other"
  frames,      \* the event frames the current upstream response will carry
  pos,         \* how many of its bytes the upstream stream has delivered
  up,          \* the upstream stream: "none", "open", "closed" (after its
               \* last byte), "aborted" (closed by an error)
  recv,        \* closure state of receiveStream
  trans,       \* closure state of createTransStream
  result,      \* the completion object returned in buffered mode
  err,         \* the error the .catch handler holds
  deleted,     \* conversation ids a deletion request was issued for
  removal,     \* the state of each of these deletion requests, in order:
               \* "pending", "resolved" or "rejected"
  refConvId,   \* the conversation context id of the request ("" = none)
  log,         \* what the handlers of failed deletion requests have logged
  upload,      \* one request's upload pipeline (UploadSpec)
  prep,        \* one call of messagesPrepare (PrepareSpec)
  sign,        \* the request signer and its callers (SignSpec)
  shape,       \* the decoding of one delta payload (ShapeSpec)
  intake       \* the intake of one asset by uploadFile (IntakeSpec)

\* the variables of the other specifications of this module
others == <<upload, prep, sign, shape, intake>>

vars == <<mode, pc, retryCount, attempts, elapsed, ctype, frames, pos, up,
          recv, trans, result, err, deleted, removal, refConvId, log, others>>

\* the value of a specification's variable while another specification runs
Off == [pc |-> "off"]

NoResult == [id |-> "", content |-> <<>>, fin |-> "none"]

Wire == Encode(frames)

\* the continuation of `await receiveStream(...)` is a microtask: it runs
\* before any further stream or timer event
Busy == pc = "receiving" /\ recv.promise # "pending"

Init ==
  /\ mode \in {"buffered", "live"}
  /\ pc = "start"
  /\ retryCount = 0
  /\ attempts = 0
  /\ elapsed = 0
  /\ ctype = "none"
  /\ frames = <<>>
  /\ pos = 0
  /\ up = "none"
  /\ recv = RecvInit
  /\ trans = TransIdle
  /\ result = NoResult
  /\ err = ""
  /\ deleted = <<>>
  /\ removal = <<>>
  /\ refConvId = ""
  /\ log = <<>>
  /\ upload = Off
  /\ prep = Off
  /\ sign = Off
  /\ shape = Off
  /\ intake = Off

\* ----------------------------------------------------- removeConversation
\* if (!convId) return; otherwise the deletion request is issued
RemoveConversation(del, convId) == IF convId = "" THEN del ELSE Append(del, convId)

RECURSIVE RemoveConversations(_, _)
RemoveConversations(del, ids) ==
  IF ids = <<>> THEN del
  ELSE RemoveConversations(RemoveConversation(del, Head(ids)), Tail(ids))

\* removeConversation(...).catch(...) is not awaited: each request issued
\* starts pending, after those issued before
Issued(rm, del) == rm \o [i \in 1..(Len(del) - Len(rm)) |-> "pending"]

\* the endCallback calls a handler made, turned into deletion requests
AfterEndCalls(t0, t1) ==
  RemoveConversations(deleted, SubSeq(t1.endCalls, Len(t0.endCalls) + 1, Len(t1.endCalls)))

\* ------------------------------------------------------------ the retry
\* a retry test that lets one call too many through
ShouldRetryInclusive(rc) == rc <= MAX_RETRY_COUNT

\* if (retryCount < MAX_RETRY_COUNT)
ShouldRetry(rc) == rc < MAX_RETRY_COUNT

\* a timer that fires without waiting
TimerFiredAtOnce(e) == e >= 0

\* setTimeout(resolve, RETRY_DELAY)
TimerFired(e) == e >= RetryDelaySeconds

\* the .catch of createCompletion / createCompletionStream: back off and
\* call again with retryCount + 1, or rethrow
Catch(e) ==
  /\ err' = e
  /\ IF ShouldRetry(retryCount)
     THEN /\ pc' = "backoff"
          /\ elapsed' = 0
          /\ ctype' = "none"
          /\ frames' = <<>>
          /\ pos' = 0
          /\ up' = "none"
          /\ recv' = RecvInit
     ELSE /\ pc' = "raised"
          /\ UNCHANGED <<elapsed, ctype, frames, pos, up, recv>>
  /\ UNCHANGED <<mode, retryCount, attempts, trans, result, deleted,
                 removal, refConvId, log, others>>

\* one second of the back-off sleep passes
Tick ==
  /\ pc = "backoff"
  /\ elapsed < RetryDelaySeconds
  /\ elapsed' = elapsed + 1
  /\ UNCHANGED <<mode, pc, retryCount, attempts, ctype, frames, pos, up,
                 recv, trans, result, err, deleted,
                 removal, refConvId, log, others>>

\* the timer fires and the function calls itself with retryCount + 1
Retry ==
  /\ pc = "backoff"
  /\ TimerFired(elapsed)
  /\ pc' = "start"
  /\ retryCount' = retryCount + 1
  /\ err' = ""
  /\ UNCHANGED <<mode, attempts, elapsed, ctype, frames, pos, up,
                 recv, trans, result, deleted,
                 removal, refConvId, log, others>>

\* ------------------------------------------------- the upstream request
\* lines 179-226 / 282-329: the pipeline runs up to the upstream call, which
\* throws or answers with some content type and some event stream
SendRequestOf(S) ==
  /\ pc = "start"
  /\ attempts' = attempts + 1
  /\ pc' = "requested"
  /\ \E ct \in {"failed", "sse", "other"} :
       /\ ctype' = ct
       /\ IF ct = "sse" THEN frames' \in S ELSE frames' = <<>>
  /\ pos' = 0
  /\ up' = "none"
  /\ recv' = RecvInit
  /\ UNCHANGED <<mode, retryCount, elapsed, trans, result, err, deleted,
                 removal, refConvId, log, others>>

SendRequest == SendRequestOf(Streams)

\* the request threw: the .catch handler runs
RequestThrows ==
  /\ pc = "requested"
  /\ ctype = "failed"
  /\ Catch("RequestError")

\* createCompletion, lines 227-233: not an event stream, throw
BufferedBadContentType ==
  /\ mode = "buffered"
  /\ pc = "requested"
  /\ ctype = "other"
  /\ Catch("API_REQUEST_FAILED")

\* createCompletion, line 237: receiveStream is called and awaited
BufferedReceive ==
  /\ mode = "buffered"
  /\ pc = "requested"
  /\ ctype = "sse"
  /\ pc' = "receiving"
  /\ recv' = RecvInit
  /\ up' = "open"
  /\ UNCHANGED <<mode, retryCount, attempts, elapsed, ctype, frames, pos,
                 trans, result, err, deleted,
                 removal, refConvId, log, others>>

\* a non event-stream response handled as createCompletion handles it
StreamBadContentTypeThrows == Catch("API_REQUEST_FAILED")

\* what createCompletionStream does with a non event-stream response,
\* lines 331-358: the fallback stream is returned
StreamBadContentTypeStep ==
  /\ pc' = "returned"
  /\ trans' = TransFallback
  /\ UNCHANGED <<mode, retryCount, attempts, elapsed, ctype, frames, pos, up,
                 recv, result, err, deleted,
                 removal, refConvId, log, others>>

StreamBadContentType ==
  /\ mode = "live"
  /\ pc = "requested"
  /\ ctype = "other"
  /\ StreamBadContentTypeStep

\* createCompletionStream, lines 360-370: the transform stream is created
\* and returned to the caller
StreamTranscode ==
  /\ mode = "live"
  /\ pc = "requested"
  /\ ctype = "sse"
  /\ pc' = "returned"
  /\ trans' = TransInit
  /\ up' = "open"
  /\ UNCHANGED <<mode, retryCount, attempts, elapsed, ctype, frames, pos,
                 recv, result, err, deleted,
                 removal, refConvId, log, others>>

\* ---------------------------------------------- upstream stream events
\* a data event with the next n bytes, buffered mode
RecvData ==
  /\ mode = "buffered"
  /\ up = "open"
  /\ ~Busy
  /\ \E n \in 1..(Len(Wire) - pos) :
       /\ pos' = pos + n
       /\ recv' = RecvOnData(recv, SubSeq(Wire, pos + 1, pos + n))
  /\ UNCHANGED <<mode, pc, retryCount, attempts, elapsed, ctype, frames, up,
                 trans, result, err, deleted,
                 removal, refConvId, log, others>>

\* a data event with the next n bytes, live mode
TransData ==
  /\ mode = "live"
  /\ up = "open"
  /\ \E n \in 1..(Len(Wire) - pos) :
       /\ pos' = pos + n
       /\ trans' = TransOnData(trans, SubSeq(Wire, pos + 1, pos + n))
  /\ deleted' = AfterEndCalls(trans, trans')
  /\ removal' = Issued(removal, deleted')
  /\ UNCHANGED <<mode, pc, retryCount, attempts, elapsed, ctype, frames, up,
                 recv, result, err, refConvId, log, others>>

\* the upstream stream fails: it is destroyed with an error and emits
\* "error" and then "close" in the same tick
RecvError ==
  /\ mode = "buffered"
  /\ up = "open"
  /\ ~Busy
  /\ up' = "aborted"
  /\ recv' = RecvOnClose(RecvOnError(recv))
  /\ UNCHANGED <<mode, pc, retryCount, attempts, elapsed, ctype, frames, pos,
                 trans, result, err, deleted,
                 removal, refConvId, log, others>>

TransError ==
  /\ mode = "live"
  /\ up = "open"
  /\ up' = "aborted"
  /\ trans' = TransOnClose(TransOnError(trans))
  /\ UNCHANGED <<mode, pc, retryCount, attempts, elapsed, ctype, frames, pos,
                 recv, result, err, deleted,
                 removal, refConvId, log, others>>

\* the upstream stream closes after its last byte
UpCanClose == up = "open" /\ pos = Len(Wire)

RecvClose ==
  /\ mode = "buffered"
  /\ UpCanClose
  /\ ~Busy
  /\ up' = "closed"
  /\ recv' = RecvOnClose(recv)
  /\ UNCHANGED <<mode, pc, retryCount, attempts, elapsed, ctype, frames, pos,
                 trans, result, err, deleted,
                 removal, refConvId, log, others>>

TransClose ==
  /\ mode = "live"
  /\ UpCanClose
  /\ up' = "closed"
  /\ trans' = TransOnClose(trans)
  /\ UNCHANGED <<mode, pc, retryCount, attempts, elapsed, ctype, frames, pos,
                 recv, result, err, deleted,
                 removal, refConvId, log, others>>

\* the PassThrough emits "close": all it holds was read after end(), or it
\* was destroyed
TransStreamClose ==
  /\ mode = "live"
  /\ trans.ended \/ trans.destroyed
  /\ ~trans.closed
  /\ trans' = [trans EXCEPT !.closed = TRUE, !.destroyed = TRUE]
  /\ UNCHANGED <<mode, pc, retryCount, attempts, elapsed, ctype, frames, pos,
                 up, recv, result, err, deleted,
                 removal, refConvId, log, others>>

\* ------------------------------------- createCompletion after the await
\* lines 238-247: the promise resolved; the conversation is removed
\* asynchronously and the answer (the object `data` itself) returned
AwaitResolved ==
  /\ mode = "buffered"
  /\ pc = "receiving"
  /\ recv.promise = "resolved"
  /\ pc' = "returned"
  /\ result' = [id |-> recv.id, content |-> recv.content, fin |-> "stop"]
  /\ deleted' = RemoveConversation(deleted, recv.id)
  /\ removal' = Issued(removal, deleted')
  /\ UNCHANGED <<mode, retryCount, attempts, elapsed, ctype, frames, pos, up,
                 recv, trans, err, refConvId, log, others>>

\* the promise rejected: the .catch handler runs
AwaitRejected ==
  /\ mode = "buffered"
  /\ pc = "receiving"
  /\ recv.promise = "rejected"
  /\ Catch(recv.err)

\* ------------------------------------- the deletion request settles
\* a deletion request whose rejection reaches the caller
OnRemoveRejectedRaises ==
  /\ pc' = "raised"
  /\ err' = "RemoveFailed"
  /\ result' = NoResult
  /\ UNCHANGED <<mode, retryCount, attempts, elapsed, ctype, frames, pos, up,
                 recv, trans, deleted, refConvId, log, others>>

\* lines 243-245 / 367-369: the .catch handler of the deletion request,
\* `(err) => !refConvId && console.error(err)`, and nothing else
OnRemoveRejected ==
  /\ log' = IF refConvId = "" THEN Append(log, "RemoveFailed") ELSE log
  /\ UNCHANGED <<mode, pc, retryCount, attempts, elapsed, ctype, frames, pos, up,
                 recv, trans, result, err, deleted, refConvId, others>>

\* the deletion request of removeConversation, lines 157-161, is answered
RemoveResolves ==
  /\ \E i \in DOMAIN removal :
       /\ removal[i] = "pending"
       /\ removal' = [removal EXCEPT ![i] = "resolved"]
  /\ UNCHANGED <<mode, pc, retryCount, attempts, elapsed, ctype, frames, pos,
                 up, recv, trans, result, err, deleted, refConvId, log, others>>

\* the deletion request throws
RemoveRejects ==
  /\ \E i \in DOMAIN removal :
       /\ removal[i] = "pending"
       /\ removal' = [removal EXCEPT ![i] = "rejected"]
  /\ OnRemoveRejected

Next ==
  \/ SendRequest
  \/ RequestThrows
  \/ BufferedBadContentType
  \/ BufferedReceive
  \/ StreamBadContentType
  \/ StreamTranscode
  \/ RecvData
  \/ TransData
  \/ RecvError
  \/ TransError
  \/ RecvClose
  \/ TransClose
  \/ TransStreamClose
  \/ AwaitResolved
  \/ AwaitRejected
  \/ Tick
  \/ Retry
  \/ RemoveResolves
  \/ RemoveRejects

Spec == Init /\ [][Next]_vars

\* ===================================================== properties
\* the frames the parser has dispatched so far are frames[1..n]
Conclusive(f) == f.k \in {"F", "T", "E", "X"}

Terminal(f) == f.k \in {"F", "T"}

Dispatched(n) == 1..(IF n <= Len(frames) THEN n ELSE Len(frames))

\* the text of the delta frames among frames[1..n], in upstream order
RECURSIVE DeltaTextTo(_)
DeltaTextTo(n) ==
  IF n = 0 THEN <<>>
  ELSE DeltaTextTo(n - 1) \o (IF frames[n].k = "D" THEN frames[n].text ELSE <<>>)

\* one chunk per delta frame with text among frames[1..n], in upstream order
RECURSIVE DeltaChunksTo(_)
DeltaChunksTo(n) ==
  IF n = 0 THEN <<>>
  ELSE DeltaChunksTo(n - 1) \o
       (IF frames[n].k = "D" /\ frames[n].text # <<>>
        THEN << [t |-> "chunk", content |-> frames[n].text, fin |-> "null"] >>
        ELSE <<>>)

\* s without one trailing newline
WithoutOneNewline(s) ==
  IF Len(s) > 0 /\ s[Len(s)] = "n" THEN [i \in 1..(Len(s) - 1) |-> s[i]] ELSE s

StopChunks(out) == { i \in DOMAIN out : out[i].t = "chunk" /\ out[i].fin = "stop" }

\* the concatenated text of the chunks of a live sequence
RECURSIVE ChunkText(_)
ChunkText(out) ==
  IF out = <<>> THEN <<>>
  ELSE (IF Head(out).t = "chunk" THEN Head(out).content ELSE <<>>) \o ChunkText(Tail(out))

\* frames[k] is an error-coded frame and no delta, terminal or undecodable
\* frame precedes it
ErrorFirstAt(k) ==
  /\ frames[k].k = "E"
  /\ \A j \in 1..(k - 1) : frames[j].k = "O" \/ (frames[j].k = "D" /\ frames[j].text = <<>>)

\* frames[k] is the first terminal frame and no error precedes it
TerminalFirstAt(k) ==
  /\ Terminal(frames[k])
  /\ \A j \in 1..(k - 1) : ~Conclusive(frames[j])

\* ------------------------------------------------------------------ C1
\* C1: whatever frames the upstream sends, once a terminal or error frame
\* was processed the caller has seen exactly one terminal event: in live
\* mode one chunk with finish_reason "stop", one end of the output stream
\* and no error raised on it afterwards; in buffered mode one settled
\* result that no later frame changes.
C1_ExactlyOneTerminalEvent ==
  /\ (mode = "live" /\ ctype = "sse" /\ \E k \in Dispatched(trans.nEvt) : Conclusive(frames[k]))
       => /\ Cardinality(StopChunks(trans.out)) = 1
          /\ trans.ended
          /\ ~trans.errEmitted
  /\ (mode = "buffered" /\ ctype = "sse" /\ \E k \in Dispatched(recv.nEvt) : Conclusive(frames[k]))
       => /\ recv.promise # "pending"
          /\ pc = "returned" => result.content = recv.content

\* ------------------------------------------------------------------ C2
\* C2: when the upstream stream has closed, the accumulated text is the
\* text the same bytes give when they arrive as one chunk, however the
\* bytes were split into chunks.
C2_SplitGivesSameText ==
  (up = "closed" /\ ctype = "sse") =>
     /\ mode = "buffered" =>
          recv.content = RecvOnClose(RecvOnData(RecvInit, Wire)).content
     /\ mode = "live" =>
          ChunkText(trans.out) = ChunkText(TransOnClose(TransOnData(TransInit, Wire)).out)

\* ------------------------------------------------------------------ C3
\* C3 as stated: the pipeline is executed at most 3 times for one request.
C3_AtMostThreeRuns == attempts <= MAX_RETRY_COUNT

\* C3 amended: the pipeline is executed at most 4 times for one request,
\* the first run and at most MAX_RETRY_COUNT retries.
C3_AtMostFourRuns == attempts <= MAX_RETRY_COUNT + 1 /\ attempts <= retryCount + 1

C3_Witness == attempts = MAX_RETRY_COUNT + 1 /\ pc = "raised"

\* ------------------------------------------------------------------ C4
\* C4: in buffered mode an attempt whose stream emits an error-coded frame
\* before any delta fails with API_REQUEST_FAILED and never returns an
\* answer; the error reaches the caller only after exactly 3 retries, and
\* a retry starts only when 5 s have passed since the failure.
C4_ErrorFrameRaisedAfterRetries ==
  /\ [](mode = "buffered" /\ ctype = "sse" =>
          /\ (\E k \in Dispatched(recv.nEvt) : ErrorFirstAt(k)) =>
                /\ recv.promise = "rejected"
                /\ recv.err = "API_REQUEST_FAILED"
                /\ pc \in {"receiving", "raised"}
                /\ pc = "raised" => err = "API_REQUEST_FAILED"
          /\ pc = "raised" => retryCount = MAX_RETRY_COUNT /\ attempts = MAX_RETRY_COUNT + 1)
  /\ [][pc = "backoff" /\ pc' # "backoff" =>
          /\ elapsed * 1000 >= RETRY_DELAY
          /\ pc' = "start"
          /\ retryCount' = retryCount + 1]_vars

C4_Witness ==
  /\ mode = "buffered"
  /\ pc = "raised"
  /\ \E k \in Dispatched(recv.nEvt) : ErrorFirstAt(k)
  /\ err = "API_REQUEST_FAILED"
  /\ retryCount = MAX_RETRY_COUNT

\* ------------------------------------------------------------------ C5
\* C5: in streaming mode, when the upstream emits an error-coded frame
\* before any delta, the live sequence is exactly one chunk, with
\* finish_reason "stop" and the fallback text, and then closes.
C5_ErrorFrameYieldsFallbackChunk ==
  (mode = "live" /\ ctype = "sse" /\ \E k \in Dispatched(trans.nEvt) : ErrorFirstAt(k))
    => /\ trans.out = << [t |-> "chunk", content |-> FallbackText, fin |-> "stop"] >>
       /\ trans.ended

C7_EndsWithDone ==
  (mode = "live" /\ trans.ended) =>
     /\ trans.out # <<>>
     /\ trans.out[Len(trans.out)].t = "done"
     /\ \A i \in 1..(Len(trans.out) - 1) : trans.out[i].t = "chunk"

C9_BufferedContent ==
  (mode = "buffered" /\ ctype = "sse") =>
     \A k \in Dispatched(recv.nEvt) : TerminalFirstAt(k) =>
        /\ recv.promise = "resolved"
        /\ recv.content = WithoutOneNewline(DeltaTextTo(k - 1))
        /\ pc \in {"receiving", "returned"}
        /\ pc = "returned" =>
             /\ result.fin = "stop"
             /\ result.content = WithoutOneNewline(DeltaTextTo(k - 1))
        /\ (\E j \in 1..(k - 1) : frames[j].k = "D" /\ \E i \in DOMAIN frames[j].text : frames[j].text[i] # "n")
             => recv.content # <<>>

C9_Witness ==
  /\ mode = "buffered"
  /\ pc = "returned"
  /\ recv.nEvt = 3
  /\ TerminalFirstAt(3)
  /\ DeltaTextTo(2) = <<"U", "n">>
  /\ result.content = <<"U">>

\* ------------------------------------------------------------------ C10
\* C10: in buffered mode, when the stream closes without a terminal frame
\* and without an error, the promise resolves and the object returned
\* carries the accumulated delta text less one trailing newline, as on the
\* terminal path.
C10_CloseTrimsNewline ==
  (mode = "buffered" /\ ctype = "sse" /\ up = "closed" /\ ~recv.isEnd
     /\ \A j \in Dispatched(recv.nEvt) : ~Conclusive(frames[j])) =>
     /\ recv.promise = "resolved"
     /\ recv.content = WithoutOneNewline(DeltaTextTo(recv.nEvt))
     /\ pc \in {"receiving", "returned"}
     /\ pc = "returned" => result.content = WithoutOneNewline(DeltaTextTo(recv.nEvt))

\* C20: once a deletion request of the upstream conversation exists -
\* pending for ever, answered or failed - the caller already holds its
\* result: the buffered call has returned the object receiveStream resolved
\* with, the live sequence has been ended, and the request is never retried
\* or failed because of the deletion.
C20_DeletionLeavesResultAlone ==
  \A i \in DOMAIN removal :
    /\ pc = "returned"
    /\ err = ""
    /\ attempts = retryCount + 1
    /\ mode = "buffered" =>
         result = [id |-> recv.id, content |-> recv.content, fin |-> "stop"]
    /\ mode = "live" => trans.ended \/ trans.destroyed

\* a buffered completion returned while its deletion request has failed
C20_Witness ==
  /\ mode = "buffered"
  /\ pc = "returned"
  /\ result.content # <<>>
  /\ removal = <<"rejected">>

\* ================================================== messagesPrepare
\* A text is a sequence of blocks: [k |-> kind, n |-> number of characters].
\* Kinds: "b" characters of the base64 alphabet [A-Za-z0-9+/=], "o" other
\* visible characters, "s" blanks, "nl" one line feed, "uri" the literal
\* data:image/png;base64, and the literals the packer itself writes.
Blk(k, n) == [k |-> k, n |-> n]

NL == Blk("nl", 1)

\* data:image/png;base64, is 22 characters long
URI == Blk("uri", 22)

\* the role lines of the merged history, lines 627-630
RoleLine(role) == Blk("<|im_start|>" \o role, 12 + (IF role = "user" THEN 4 ELSE IF role = "system" THEN 6 ELSE 9))

ImEnd == Blk("<|im_end|>", 10)

\* the content of the injected message, line 591 (13 characters)
FileHint == Blk("file_hint", 13)

\* how many characters of a block match [A-Za-z0-9+/=]
B64In(b) ==
  IF b.k = "b" THEN b.n
  ELSE IF b.k = "uri" THEN 19
  ELSE IF b.k = "<|im_start|>user" THEN 11
  ELSE IF b.k = "<|im_start|>system" THEN 13
  ELSE IF b.k = "<|im_start|>assistant" THEN 16
  ELSE IF b.k = "<|im_end|>" THEN 5
  ELSE 0

\* the string the blocks spell: neighbours of one kind are one run
RECURSIVE Norm(_)
Norm(t) ==
  IF Len(t) < 2 THEN t
  ELSE LET r == Norm(Tail(t))
       IN IF t[1].k = r[1].k /\ t[1].k \in {"b", "o", "s"}
          THEN <<Blk(t[1].k, t[1].n + r[1].n)>> \o Tail(r)
          ELSE <<t[1]>> \o r

RECURSIVE TextLen(_)
TextLen(t) == IF t = <<>> THEN 0 ELSE t[1].n + TextLen(Tail(t))

RECURSIVE B64Chars(_)
B64Chars(t) == IF t = <<>> THEN 0 ELSE B64In(t[1]) + B64Chars(Tail(t))

\* String.prototype.trim
RECURSIVE TrimStart(_)
TrimStart(t) ==
  IF t # <<>> /\ t[1].k \in {"s", "nl"} THEN TrimStart(Tail(t)) ELSE t

RECURSIVE TrimEnd(_)
TrimEnd(t) ==
  IF t # <<>> /\ t[Len(t)].k \in {"s", "nl"}
  THEN TrimEnd(SubSeq(t, 1, Len(t) - 1)) ELSE t

Trim(t) == TrimEnd(TrimStart(t))

\* split(/\r?\n/) and join("\n")
RECURSIVE SplitLines(_, _)
SplitLines(cur, t) ==
  IF t = <<>> THEN <<cur>>
  ELSE IF t[1].k = "nl" THEN <<cur>> \o SplitLines(<<>>, Tail(t))
  ELSE SplitLines(Append(cur, t[1]), Tail(t))

RECURSIVE JoinLines(_)
JoinLines(ls) ==
  IF ls = <<>> THEN <<>>
  ELSE IF Len(ls) = 1 THEN ls[1]
  ELSE ls[1] \o <<NL>> \o JoinLines(Tail(ls))

\* the text thresholds written in the code
LongRun == 500
TextLineMax == 300
Base64LineMax == 200

\* cleanTextContent, line 610: data:[^;]+;base64,[A-Za-z0-9+/=]+ is removed
\* where at least one base64 character follows the comma
RECURSIVE ReplaceDataUris(_)
ReplaceDataUris(t) ==
  IF t = <<>> THEN <<>>
  ELSE IF t[1].k = "uri" /\ Len(t) > 1 /\ t[2].k = "b"
       THEN ReplaceDataUris(Tail(Tail(t)))
  ELSE <<t[1]>> \o ReplaceDataUris(Tail(t))

\* cleanTextContent, line 612: [A-Za-z0-9+/=]{500,} is removed
ReplaceLongRuns(t) ==
  SelectSeq(Norm(t), LAMBDA b : ~(b.k = "b" /\ b.n >= LongRun))

\* util.isBASE64 (not part of the sources at hand): false for a line with a
\* character outside the base64 alphabet; for the other lines the answer
\* is `yes`, which the caller draws
isBASE64(line, yes) ==
  /\ line # <<>>
  /\ \A i \in DOMAIN line : line[i].k = "b"
  /\ yes

\* cleanTextContent, lines 606-623
cleanTextContent(text, yes) ==
  LET t1 == ReplaceDataUris(Norm(text))
      t2 == ReplaceLongRuns(t1)
      keep(line) == ~(TextLen(Trim(line)) > TextLineMax /\ isBASE64(Trim(line), yes))
  IN JoinLines(SelectSeq(SplitLines(<<>>, t2), keep))

\* cleanBase64 step 1, lines 693-705: the data URI prefix is removed with
\* the base64 characters that follow it, if any
RECURSIVE RemoveDataUris(_)
RemoveDataUris(t) ==
  IF t = <<>> THEN <<>>
  ELSE IF t[1].k = "uri"
       THEN RemoveDataUris(IF Len(t) > 1 /\ t[2].k = "b" THEN Tail(Tail(t)) ELSE Tail(t))
  ELSE <<t[1]>> \o RemoveDataUris(Tail(t))

\* cleanBase64 step 2, lines 709-719: base64Chars > trimmed.length * 0.9
KeepLine(line) ==
  LET trimmed == Trim(line)
  IN ~(TextLen(trimmed) > Base64LineMax /\ 10 * B64Chars(trimmed) > 9 * TextLen(trimmed))

\* cleanBase64, lines 688-722
cleanBase64(text) ==
  LET t1 == Norm(RemoveDataUris(Norm(text)))
  IN Norm(Trim(JoinLines(SelectSeq(SplitLines(<<>>, t1), KeepLine))))

\* a message is [role, content]; a content is a string (array = FALSE, its
\* text in `text`) or an array of parts [type, text] (array = TRUE)
Str(text) == [array |-> FALSE, text |-> text, parts |-> <<>>]

Arr(parts) == [array |-> TRUE, text |-> <<>>, parts |-> parts]

Part(type, text) == [type |-> type, text |-> text]

Msg(role, content) == [role |-> role, content |-> content]

\* text parts passed on with nothing between them
RECURSIVE PassPartsGlued(_)
PassPartsGlued(parts) ==
  IF parts = <<>> THEN <<>>
  ELSE (IF parts[1].type = "text" THEN parts[1].text ELSE <<>>)
       \o PassPartsGlued(Tail(parts))

\* lines 570-578: the texts are passed on, each followed by a line feed
RECURSIVE PassParts(_)
PassParts(parts) ==
  IF parts = <<>> THEN <<>>
  ELSE (IF parts[1].type = "text" THEN parts[1].text \o <<NL>> ELSE <<>>)
       \o PassParts(Tail(parts))

RECURSIVE PassThrough(_)
PassThrough(ms) ==
  IF ms = <<>> THEN <<>>
  ELSE (IF ms[1].content.array THEN PassParts(ms[1].content.parts)
        ELSE ms[1].content.text \o <<NL>>)
       \o PassThrough(Tail(ms))

\* lines 582-588
hasFileOrImage(ms) ==
  LET latest == ms[Len(ms)].content
  IN latest.array /\ \E i \in DOMAIN latest.parts : latest.parts[i].type \in {"file", "image_url"}

\* lines 590-594: messages.splice(messages.length - 1, 0, newFileMessage)
Splice(ms) ==
  SubSeq(ms, 1, Len(ms) - 1) \o <<Msg("system", Str(<<FileHint>>)), ms[Len(ms)]>>

\* lines 631-636: every text part after its role line
RECURSIVE MergeParts(_, _, _)
MergeParts(role, parts, yes) ==
  IF parts = <<>> THEN <<>>
  ELSE (IF parts[1].type = "text"
        THEN <<RoleLine(role), NL>> \o cleanTextContent(parts[1].text, yes) \o <<NL>>
        ELSE <<>>)
       \o MergeParts(role, Tail(parts), yes)

\* lines 625-645: the merged history (the texts drawn hold no Markdown
\* image and no /mnt/data path, so the two replaces leave them as they are)
RECURSIVE Merge(_, _)
Merge(ms, yes) ==
  IF ms = <<>> THEN <<>>
  ELSE (IF ms[1].content.array
        THEN MergeParts(ms[1].role, ms[1].content.parts, yes)
        ELSE <<RoleLine(ms[1].role), NL>> \o cleanTextContent(ms[1].content.text, yes)
             \o <<NL, ImEnd, NL>>)
       \o Merge(Tail(ms), yes)

\* lines 676-685: the text parts of the last message joined by line feeds
JoinTextParts(parts) ==
  LET texts == SelectSeq(parts, LAMBDA v : v.type = "text")
  IN JoinLines([i \in DOMAIN texts |-> texts[i].text])

lastText(ms) ==
  IF ms = <<>> THEN <<>>
  ELSE IF ms[Len(ms)].content.array THEN JoinTextParts(ms[Len(ms)].content.parts)
  ELSE ms[Len(ms)].content.text

\* an upload result: null, or a reference with its key (a string written
\* as the sequence of its pieces) and, for an image, its dimensions
\* (0: the field is absent)
NullRef == [null |-> TRUE, url |-> <<>>, width |-> 0, height |-> 0]

Ref(url, w, h) == [null |-> FALSE, url |-> url, width |-> w, height |-> h]

\* a key test that lets every key through
MatchesAnyKey(url) == TRUE

\* line 655: /^tos-cn-i-/.test(key)
MatchesKeyPattern(url) == url # <<>> /\ url[1] = "tos-cn-i-"

\* lines 649-656
imageRefs(refs) ==
  LET safeRefs == SelectSeq(refs, LAMBDA r : ~r.null)
      rawImageRefs == SelectSeq(safeRefs, LAMBDA r : r.width # 0 \/ r.height # 0)
  IN SelectSeq(rawImageRefs, LAMBDA r : MatchesKeyPattern(r.url))

\* lines 661-669
Attachments(refs) ==
  LET irs == imageRefs(refs)
  IN [i \in DOMAIN irs |->
        [type |-> "vlm_image", key |-> irs[i].url,
         option |-> [width |-> IF irs[i].width # 0 THEN irs[i].width ELSE 1,
                     height |-> IF irs[i].height # 0 THEN irs[i].height ELSE 1]]]

\* a packer that takes the last message's text whenever that message
\* carries an image part
hasImagesByPart(ms, attachments) ==
  ms # <<>> /\ ms[Len(ms)].content.array
  /\ \E i \in DOMAIN ms[Len(ms)].content.parts : ms[Len(ms)].content.parts[i].type # "text"

\* line 724
hasImages(ms, attachments) == Len(attachments) > 0

\* messagesPrepare, lines 567-750: the messages array as the call leaves
\* it and the payload returned
messagesPrepare(ms, refs, isRefConv, yes) ==
  LET pass == isRefConv \/ Len(ms) < 2
      ms1 == IF ~pass /\ hasFileOrImage(ms) THEN Splice(ms) ELSE ms
      content == IF pass THEN PassThrough(ms) ELSE Merge(ms1, yes)
      attachments == Attachments(refs)
      finalContent == IF hasImages(ms1, attachments) THEN cleanBase64(lastText(ms1))
                      ELSE cleanBase64(content)
  IN [messages |-> ms1,
      payload |-> [text |-> finalContent, content_type |-> 2001,
                   attachments |-> attachments, references |-> <<>>]]

\* ------------------------- PrepareSpec: the calls of one request
MaxHistory == 2
MaxRefs == 2
\* the attempts of the request that get as far as messagesPrepare
MaxPrepares == 2

\* the texts the messages are drawn from
Hi == <<Blk("o", 2)>>

Texts ==
  { Hi,
    <<Blk("s", 1), Blk("o", 2), NL>>,                 \* blanks around
    <<Blk("o", 2), Blk("s", 1), URI, Blk("b", 600)>>, \* a data URI
    <<Blk("o", 60), Blk("b", 500)>>,                  \* base64 inside a line
    <<Blk("b", 600)>>,                                \* a base64 line
    <<Blk("b", 250)>> }                               \* a long word

HistoryMsgs ==
  { Msg("user", Str(Hi)),
    Msg("assistant", Str(<<Blk("o", 2), Blk("s", 1), URI, Blk("b", 600)>>)),
    Msg("user", Str(<<Blk("b", 400)>>)) }

ImagePart == Part("image_url", <<>>)

LastMsgs ==
  { Msg("user", c) :
      c \in { Str(t) : t \in Texts }
            \cup { Arr(<<Part("text", t), ImagePart>>) : t \in Texts }
            \cup { Arr(<<Part("text", Hi), Part("image", <<>>)>>),
                   Arr(<<Part("text", Hi), Part("text", <<Blk("s", 1), Blk("o", 2), NL>>)>>),
                   Arr(<<ImagePart>>) } }

MessageLists ==
  {<<>>} \cup { h \o <<m>> : h \in SeqsUpTo(HistoryMsgs, MaxHistory), m \in LastMsgs }

TosKey == <<"tos-cn-i-", "k1">>

RefSet ==
  { NullRef,
    Ref(<<"upload-failed://", "placeholder">>, 0, 0),
    Ref(TosKey, 2, 3),
    Ref(<<"img/", "tos-cn-i-", "k1">>, 1, 1) }

NoPayload == [text |-> <<>>, content_type |-> 0, attachments |-> <<>>, references |-> <<>>]

\* the variables of the orchestrator, at rest under the other specifications
chat == <<mode, pc, retryCount, attempts, elapsed, ctype, frames, pos, up,
          recv, trans, result, err, deleted, removal, refConvId, log>>

ChatOff ==
  /\ mode = "off"
  /\ pc = "off"
  /\ retryCount = 0
  /\ attempts = 0
  /\ elapsed = 0
  /\ ctype = "none"
  /\ frames = <<>>
  /\ pos = 0
  /\ up = "none"
  /\ recv = RecvInit
  /\ trans = TransIdle
  /\ result = NoResult
  /\ err = ""
  /\ deleted = <<>>
  /\ removal = <<>>
  /\ refConvId = ""
  /\ log = <<>>

\* the arguments of the call: the conversation as the caller gave it and
\* the array `messages` the request holds, the upload results, whether a
\* conversation is continued, and what util.isBASE64 answers;
\* `sent` are the payloads the attempts of the request built, in order
PrepareInit ==
  /\ \E ms \in MessageLists, rs \in SeqsUpTo(RefSet, MaxRefs), c \in BOOLEAN, y \in BOOLEAN :
       prep = [pc |-> "ready", given |-> ms, messages |-> ms, refs |-> rs,
               isRefConv |-> c, yes |-> y, payload |-> NoPayload, calls |-> 0,
               sent |-> <<>>]
  /\ upload = Off
  /\ sign = Off
  /\ shape = Off
  /\ intake = Off
  /\ ChatOff

\* the call of messagesPrepare, lines 198 and 301, on the array the
\* request holds
Prepare ==
  /\ prep.pc = "ready"
  /\ LET r == messagesPrepare(prep.messages, prep.refs, prep.isRefConv, prep.yes)
     IN prep' = [prep EXCEPT !.pc = "done", !.messages = r.messages,
                             !.payload = r.payload, !.calls = @ + 1,
                             !.sent = Append(@, r.payload)]
  /\ UNCHANGED <<chat, upload, sign, shape, intake>>

\* lines 248-262 / 371-387: the attempt failed after its payload was built
\* and createCompletion calls itself with the same array `messages`
PrepareRetry ==
  /\ prep.pc = "done"
  /\ ShouldRetry(prep.calls - 1)
  /\ prep.calls < MaxPrepares
  /\ prep' = [prep EXCEPT !.pc = "ready"]
  /\ UNCHANGED <<chat, upload, sign, shape, intake>>

PrepareNext ==
  \/ Prepare
  \/ PrepareRetry

PrepareSpec == PrepareInit /\ [][PrepareNext]_vars

\* ------------------------------------------ properties of the packer
Prepared == prep.pc = "done"

HasDataUri(t) == \E i \in DOMAIN t : t[i].k = "uri"

HasLongRun(t) == \E i \in DOMAIN Norm(t) : Norm(t)[i].k = "b" /\ Norm(t)[i].n >= LongRun

HasDelimiter(t) ==
  \E i \in DOMAIN t :
    t[i] \in {RoleLine("user"), RoleLine("assistant"), RoleLine("system"), ImEnd}

HasFileHint(t) == \E i \in DOMAIN t : t[i] = FileHint

LastHasImage(ms) ==
  /\ ms # <<>>
  /\ ms[Len(ms)].content.array
  /\ \E i \in DOMAIN ms[Len(ms)].content.parts :
       ms[Len(ms)].content.parts[i].type \in {"image_url", "image"}

\* an upload result that carries dimensions and a key outside the pattern
StrayImageRef(r) ==
  ~r.null /\ (r.width # 0 \/ r.height # 0) /\ (r.url = <<>> \/ r.url[1] # "tos-cn-i-")

\* C14: in every payload messagesPrepare builds, whatever the list of upload
\* results, each attachment's key starts with "tos-cn-i-", and no upload
\* result with dimensions whose key does not start so becomes an attachment.
C14_AttachmentKeysCommitted ==
  Prepared =>
    /\ \A i \in DOMAIN prep.payload.attachments :
         prep.payload.attachments[i].key[1] = "tos-cn-i-"
    /\ \A j \in DOMAIN prep.refs :
         StrayImageRef(prep.refs[j]) =>
           \A i \in DOMAIN prep.payload.attachments :
             prep.payload.attachments[i].key # prep.refs[j].url

\* a payload with an attachment, built from results with a stray reference
C14_Witness ==
  /\ Prepared
  /\ prep.payload.attachments # <<>>
  /\ \E j \in DOMAIN prep.refs : StrayImageRef(prep.refs[j])

\* C15 as written: for a conversation of at most one message the payload
\* text equals the message's flattened text (its string content, or its text
\* parts joined in order), with no role delimiter and no system instruction.
C15_TextIsFlattenedText ==
  Prepared /\ Len(prep.given) <= 1 =>
    /\ prep.payload.text = Norm(lastText(prep.given))
    /\ ~HasDelimiter(prep.payload.text)
    /\ ~HasFileHint(prep.payload.text)

\* C15: for a conversation of at most one message the payload text is the
\* message's flattened text once cleaned (data URIs removed, long lines of
\* base64 characters dropped, blanks at both ends trimmed), with no role
\* delimiter and no system instruction.
C15_TextIsCleanedFlattenedText ==
  Prepared /\ Len(prep.given) <= 1 =>
    /\ prep.payload.text = cleanBase64(lastText(prep.given))
    /\ ~HasDelimiter(prep.payload.text)
    /\ ~HasFileHint(prep.payload.text)

\* one message of two text parts whose cleaned text differs from what the
\* caller wrote
C15_Witness ==
  /\ Prepared
  /\ Len(prep.given) = 1
  /\ prep.given[1].content.array
  /\ Len(prep.given[1].content.parts) = 2
  /\ prep.payload.text # <<>>
  /\ prep.payload.text # Norm(lastText(prep.given))

\* C16 as written: for a conversation of two or more messages whose last
\* message has an image part, the payload text is only the last message's
\* cleaned text parts - no earlier message, no role delimiter, no system
\* instruction - whatever the upload results are.
C16_LastTextWhateverTheUpload ==
  Prepared /\ Len(prep.given) >= 2 /\ LastHasImage(prep.given) =>
    /\ prep.payload.text = cleanBase64(lastText(prep.given))
    /\ ~HasDelimiter(prep.payload.text)
    /\ ~HasFileHint(prep.payload.text)

\* C16: for a conversation of two or more messages whose last message has
\* an image part, the payload text is only the last message's cleaned text
\* parts when the payload carries at least one attachment; when it carries
\* none (every upload failed) and no conversation is continued, the text is
\* the merged history with its role delimiters and, for an image_url part,
\* the system instruction.
C16_LastTextOnlyWithAttachment ==
  Prepared /\ Len(prep.given) >= 2 /\ LastHasImage(prep.given) =>
    /\ prep.payload.attachments # <<>> =>
         /\ prep.payload.text = cleanBase64(lastText(prep.given))
         /\ ~HasDelimiter(prep.payload.text)
         /\ ~HasFileHint(prep.payload.text)
    /\ prep.payload.attachments = <<>> /\ ~prep.isRefConv =>
         /\ HasDelimiter(prep.payload.text)
         /\ hasFileOrImage(prep.given) => HasFileHint(prep.payload.text)

\* a history and an image message whose upload returned null
C16_Witness ==
  /\ Prepared
  /\ Len(prep.given) >= 2
  /\ LastHasImage(prep.given)
  /\ prep.refs = <<NullRef>>
  /\ ~prep.isRefConv
  /\ HasFileHint(prep.payload.text)

\* C17: on every branch of messagesPrepare the payload text holds no data
\* URI and no run of 500 or more base64 characters, wherever the run sits.
C17_NoInlineData ==
  Prepared => ~HasDataUri(prep.payload.text) /\ ~HasLongRun(prep.payload.text)

\* ===================================================== uploadFile
MaxAssets == 2

\* an attachment of the last message: behind a URL or inline (a data URI),
\* an image or not by its MIME type (line 1169), and the width and height
\* sniffImageSize reads in its bytes (0: no header recognised)
Asset(remote, isImage, size) == [remote |-> remote, isImage |-> isImage, size |-> size]

AssetSet ==
  { Asset(TRUE, TRUE, 2), Asset(TRUE, TRUE, 0), Asset(FALSE, TRUE, 2),
    Asset(TRUE, FALSE, 0), Asset(FALSE, FALSE, 0) }

\* the store URI ApplyImageUpload hands out for the i-th asset
StoreUris(i) == { <<"tos-cn-i-", <<"k1", "k2", "k3", "k4">>[i]>>,
                  <<"img/", <<"k1", "k2", "k3", "k4">>[i]>> }

\* no credential
NoCred == <<>>

\* the credential acquireUploadAuth returns to the i-th upload of the
\* attempt with this retryCount: every answer of prepare_upload is a
\* credential of its own
Cred(i, rc) == <<"sts", rc, i>>

\* the answers to the Apply request of the i-th asset: whether it has an
\* UploadAddress, its store URI, whether it has an auth token and a storage
\* host; complete ones and ones that lack one thing
ApplyAnswers(i) ==
  { <<TRUE, uri, TRUE, TRUE>> : uri \in StoreUris(i) }
  \cup { <<FALSE, <<>>, FALSE, FALSE>>,
         <<TRUE, <<>>, TRUE, TRUE>>,
         <<TRUE, <<"tos-cn-i-", "k0">>, FALSE, TRUE>>,
         <<TRUE, <<"tos-cn-i-", "k0">>, TRUE, FALSE>> }

\* one uploadFile call: where it stands, what the probe, the transfer and
\* the commit answered, and what it returned; cred is its local `auth`,
\* applyCred and commitCred the credentials its Apply and Commit requests
\* were signed with, storeUri, auth and tosHost its local `apply`
RunStart(a) ==
  [stage |-> IF a.remote THEN "probe" ELSE "sts", head |-> 0, storeUri |-> <<>>,
   tos |-> "none", commit |-> "none", out |-> NullRef, err |-> "",
   cred |-> NoCred, applyCred |-> NoCred, commitCred |-> NoCred,
   auth |-> FALSE, tosHost |-> FALSE]

\* lines 1217-1224: width: size?.width || 1
Returned(a, r) ==
  [r EXCEPT !.stage = "done",
            !.out = IF a.isImage
                    THEN Ref(r.storeUri, IF a.size # 0 THEN a.size ELSE 1,
                             IF a.size # 0 THEN a.size ELSE 1)
                    ELSE Ref(r.storeUri, 0, 0)]

\* a catch block that hands the staged object on
OnUploadErrorKeepsRef(a, r) == Returned(a, r)

\* lines 1225-1245: null for an image, the placeholder for another file
OnUploadError(a, r) ==
  [r EXCEPT !.stage = "done",
            !.out = IF a.isImage THEN NullRef
                    ELSE Ref(<<"upload-failed://", "placeholder">>, 0, 0)]

\* an error outside the try block of uploadFile rejects its promise
Thrown(r, e) == [r EXCEPT !.stage = "thrown", !.err = e]

\* a failed commit that gives the upload up
CommitFailedAborts(a, r) == OnUploadError(a, r)

\* lines 1207-1210: the failure is logged and uploadFile goes on
CommitFailed(a, r) == Returned(a, r)

\* checkFileUrl, lines 757-785, for an asset behind a URL
checkFileUrl(r, status, tooBig) ==
  IF status >= 400 THEN Thrown([r EXCEPT !.head = status], "API_FILE_URL_INVALID")
  ELSE IF tooBig THEN Thrown([r EXCEPT !.head = status], "API_FILE_EXECEEDS_SIZE")
  ELSE [r EXCEPT !.head = status, !.stage = "fetch"]

\* an Apply that takes the answer without its per-object auth token or its
\* storage host
applyImageUploadLax(a, r, hasUA, uri, hasAuth, hasHost) ==
  IF ~hasUA \/ uri = <<>>
  THEN OnUploadError(a, r)
  ELSE [r EXCEPT !.stage = "tos", !.storeUri = uri, !.auth = hasAuth, !.tosHost = hasHost]

\* applyImageUpload, lines 940-957: no Result or UploadAddress, or no store
\* URI, auth token or storage host in it, throws; uploadFile catches
applyImageUpload(a, r, hasUA, uri, hasAuth, hasHost) ==
  IF ~hasUA \/ uri = <<>> \/ ~hasAuth \/ ~hasHost
  THEN OnUploadError(a, r)
  ELSE [r EXCEPT !.stage = "tos", !.storeUri = uri, !.auth = hasAuth, !.tosHost = hasHost]

\* uploadToTos, lines 975-982: the status and the code of the answer
uploadToTos(a, r, status, code) ==
  IF status >= 300 \/ code # 2000
  THEN OnUploadError(a, [r EXCEPT !.tos = "failed"])
  ELSE IF a.isImage THEN [r EXCEPT !.tos = "ok", !.stage = "commit"]
  ELSE Returned(a, [r EXCEPT !.tos = "ok"])

\* commitImageUpload, lines 1117-1127, called at lines 1193-1211
commitImageUpload(a, r, status, uriStatus) ==
  IF status >= 300 \/ uriStatus # 2000
  THEN CommitFailed(a, [r EXCEPT !.commit = "failed"])
  ELSE Returned(a, [r EXCEPT !.commit = "ok"])

\* ------------------------------ UploadSpec: the uploads of one request
\* the conversation: one user message with a text and the attachments
UploadMessages(assets) ==
  <<Msg("user", Arr(<<Part("text", Hi)>> \o
       [i \in DOMAIN assets |->
          Part(IF assets[i].isImage THEN "image_url" ELSE "file", <<>>)]))>>

\* a request at its attempt number rc; with `watched` the order in which
\* its uploadFile promises settle is recorded in `settled`
UploadStart(as, rc, watched) ==
  [pc |-> "uploading", retryCount |-> rc, assets |-> as,
   run |-> [i \in DOMAIN as |-> RunStart(as[i])],
   payload |-> NoPayload, cause |-> "", watched |-> watched, settled |-> <<>>]

UploadInit ==
  /\ \E as \in SeqsUpTo(AssetSet, MaxAssets) \ {<<>>} :
       upload = UploadStart(as, 0, FALSE)
  /\ prep = Off
  /\ sign = Off
  /\ shape = Off
  /\ intake = Off
  /\ ChatOff

\* a rejected uploadFile rejects Promise.all at once: the .catch handler
\* runs before any other event
Rejecting ==
  upload.pc = "uploading" /\ \E i \in DOMAIN upload.run : upload.run[i].stage = "thrown"

\* the i-th uploadFile call is at `stage` and its next answer may come
At(i, stage) == ~Rejecting /\ upload.run[i].stage = stage

Step(i, r) ==
  /\ upload' = [upload EXCEPT
                  !.run[i] = r,
                  !.settled = IF upload.watched /\ r.stage \in {"done", "thrown"}
                              THEN Append(@, i) ELSE @]
  /\ UNCHANGED <<chat, prep, sign, shape, intake>>

\* line 1144: the HEAD request of checkFileUrl is answered
Probe(i) ==
  /\ At(i, "probe")
  /\ \E status \in {200, 404}, tooBig \in BOOLEAN :
       Step(i, checkFileUrl(upload.run[i], status, tooBig))

\* lines 1156-1164: the download, outside the try block
Fetch(i) ==
  /\ At(i, "fetch")
  /\ \E ok \in BOOLEAN :
       Step(i, IF ok THEN [upload.run[i] EXCEPT !.stage = "sts"]
               ELSE Thrown(upload.run[i], "DownloadFailed"))

\* line 1174: acquireUploadAuth answers with a credential or throws
AcquireUploadAuth(i) ==
  /\ At(i, "sts")
  /\ \E ok \in BOOLEAN :
       Step(i, IF ok THEN [upload.run[i] EXCEPT !.stage = "apply",
                                                !.cred = Cred(i, upload.retryCount)]
               ELSE OnUploadError(upload.assets[i], upload.run[i]))

\* lines 1178-1186: applyImageUpload is called with the members of the
\* local `auth` and its request is answered
ApplyImageUpload(i) ==
  /\ At(i, "apply")
  /\ \E ans \in ApplyAnswers(i) :
       Step(i, applyImageUpload(upload.assets[i],
                 [upload.run[i] EXCEPT !.applyCred = upload.run[i].cred],
                 ans[1], ans[2], ans[3], ans[4]))

\* line 1189: the binary transfer answers (a request that throws is an
\* answer with a failure status)
UploadToTos(i) ==
  /\ At(i, "tos")
  /\ \E status \in {200, 500}, code \in {2000, 4001} :
       Step(i, uploadToTos(upload.assets[i], upload.run[i], status, code))

\* lines 1193-1211: commitImageUpload is called with the members of the
\* local `auth` and its request is answered
CommitImageUpload(i) ==
  /\ At(i, "commit")
  /\ \E status \in {200, 500}, uriStatus \in {2000, 2001} :
       Step(i, commitImageUpload(upload.assets[i],
                 [upload.run[i] EXCEPT !.commitCred = upload.run[i].cred],
                 status, uriStatus))

\* lines 248-262: Promise.all rejected, the .catch handler of the request
UploadsRejected ==
  /\ Rejecting
  /\ \E i \in DOMAIN upload.run :
       /\ upload.run[i].stage = "thrown"
       /\ upload' = [upload EXCEPT
                       !.cause = upload.run[i].err,
                       !.pc = IF ShouldRetry(upload.retryCount) THEN "backoff" ELSE "raised"]
  /\ UNCHANGED <<chat, prep, sign, shape, intake>>

\* lines 252-260: after the delay the request runs again from the uploads
UploadRetry ==
  /\ upload.pc = "backoff"
  /\ upload' = [upload EXCEPT
                  !.pc = "uploading", !.retryCount = @ + 1, !.cause = "",
                  !.settled = <<>>,
                  !.run = [i \in DOMAIN upload.assets |-> RunStart(upload.assets[i])]]
  /\ UNCHANGED <<chat, prep, sign, shape, intake>>

\* results handed on in the order the promises settled
InSettleOrder(u) == [k \in DOMAIN u.settled |-> u.run[u.settled[k]].out]

\* lines 185-189: Promise.all resolves with the values of the uploadFile
\* promises in the order of the URLs, whenever each of them settled
PromiseAll(u) == [i \in DOMAIN u.run |-> u.run[i].out]

\* lines 196-199: every upload returned; the payload is built and sent
SendChat ==
  /\ upload.pc = "uploading"
  /\ \A i \in DOMAIN upload.run : upload.run[i].stage = "done"
  /\ upload' = [upload EXCEPT
                  !.pc = "sent",
                  !.payload = messagesPrepare(UploadMessages(upload.assets),
                                PromiseAll(upload), FALSE, FALSE).payload]
  /\ UNCHANGED <<chat, prep, sign, shape, intake>>

UploadNext ==
  \/ \E i \in DOMAIN upload.run : Probe(i)
  \/ \E i \in DOMAIN upload.run : Fetch(i)
  \/ \E i \in DOMAIN upload.run : AcquireUploadAuth(i)
  \/ \E i \in DOMAIN upload.run : ApplyImageUpload(i)
  \/ \E i \in DOMAIN upload.run : UploadToTos(i)
  \/ \E i \in DOMAIN upload.run : CommitImageUpload(i)
  \/ UploadsRejected
  \/ UploadRetry
  \/ SendChat

UploadSpec == UploadInit /\ [][UploadNext]_vars

\* ------------------------------------------ properties of the uploads
\* the width and the height uploadFile reports for an image
Dimension(a) == IF a.size # 0 THEN a.size ELSE 1

\* C11: when the HEAD probe of an attached URL answers 404, the upload of
\* that asset fails closed: uploadFile returns null for it, and the request
\* is neither retried nor failed because of it.
C11_ProbeFailureFailsClosed ==
  \A i \in DOMAIN upload.run :
    upload.run[i].head = 404 =>
      /\ upload.run[i].stage = "done"
      /\ upload.run[i].out = NullRef
      /\ upload.cause # "API_FILE_URL_INVALID"

\* C12: when the binary transfer of an image fails (status or embedded
\* code), uploadFile returns null for it, its commit is never executed, the
\* payload sent holds no attachment with its key, and a request with this
\* one image is sent with its text and no attachment.
C12_TransferFailureGivesNull ==
  \A i \in DOMAIN upload.run :
    upload.assets[i].isImage /\ upload.run[i].tos = "failed" =>
      /\ upload.run[i].stage = "done"
      /\ upload.run[i].out = NullRef
      /\ upload.run[i].commit = "none"
      /\ upload.pc = "sent" =>
           /\ \A j \in DOMAIN upload.payload.attachments :
                upload.payload.attachments[j].key # upload.run[i].storeUri
           /\ upload.payload.text = Hi
           /\ Len(upload.assets) = 1 => upload.payload.attachments = <<>>

\* a request sent although the transfer of its only image failed
C12_Witness ==
  /\ upload.pc = "sent"
  /\ Len(upload.assets) = 1
  /\ upload.assets[1].isImage
  /\ upload.run[1].tos = "failed"
  /\ upload.run[1].storeUri[1] = "tos-cn-i-"

\* C13: whether the commit of an image succeeds or fails, uploadFile
\* returns the reference with the staged store URI and the sniffed
\* dimensions (1 x 1 when no header is recognised).
C13_CommitFailureKeepsReference ==
  \A i \in DOMAIN upload.run :
    upload.run[i].commit \in {"ok", "failed"} =>
      /\ upload.run[i].stage = "done"
      /\ upload.run[i].out =
           Ref(upload.run[i].storeUri, Dimension(upload.assets[i]), Dimension(upload.assets[i]))

\* an image attached although its commit failed
C13_Witness ==
  /\ upload.pc = "sent"
  /\ \E i \in DOMAIN upload.run :
       /\ upload.run[i].commit = "failed"
       /\ upload.assets[i].size = 2
       /\ \E j \in DOMAIN upload.payload.attachments :
            /\ upload.payload.attachments[j].key = upload.run[i].storeUri
            /\ upload.payload.attachments[j].option.width = 2

\* ================================================== the request signer
\* A parameter value is a string written as the sequence of its
\* characters; a parameter name is one piece (its letters need no escape).
\* an encoder that leaves the percent sign as it is
EncodeCharLoose(c) ==
  IF c = " " THEN <<"%", "2", "0">>
  ELSE IF c = "&" THEN <<"%", "2", "6">>
  ELSE IF c = "=" THEN <<"%", "3", "D">>
  ELSE IF c = "!" THEN <<"%", "2", "1">>
  ELSE <<c>>

\* encodeURIComponent and the replace of line 792, one character at a time
EncodeChar(c) ==
  IF c = " " THEN <<"%", "2", "0">>
  ELSE IF c = "%" THEN <<"%", "2", "5">>
  ELSE IF c = "&" THEN <<"%", "2", "6">>
  ELSE IF c = "=" THEN <<"%", "3", "D">>
  ELSE IF c = "!" THEN <<"%", "2", "1">>
  ELSE <<c>>

\* rfc3986Encode, lines 791-793
RECURSIVE rfc3986Encode(_)
rfc3986Encode(str) ==
  IF str = <<>> THEN <<>> ELSE EncodeChar(str[1]) \o rfc3986Encode(Tail(str))

\* the parameter names the callers use, in the order Array.prototype.sort
\* puts them (UTF-16 code units)
KeyOrder ==
  <<"Action", "FileExtension", "FileSize", "NeedFallback", "ServiceId",
    "UploadNum", "Version">>

\* params is the object as written: the pairs <<name, value>> in insertion
\* order, each name once
IndexOf(params, k) == CHOOSE i \in DOMAIN params : params[i][1] = k

Keys(params) == { params[i][1] : i \in DOMAIN params }

\* name=value pairs joined by "&" in the order of `names`
RECURSIVE JoinQuery(_, _)
JoinQuery(params, names) ==
  IF names = <<>> THEN <<>>
  ELSE <<names[1], "=">> \o rfc3986Encode(params[IndexOf(params, names[1])][2])
       \o (IF Len(names) > 1 THEN <<"&">> ELSE <<>>)
       \o JoinQuery(params, Tail(names))

\* canonicalQuery, lines 813-818
canonicalQuery(params) ==
  JoinQuery(params, SelectSeq(KeyOrder, LAMBDA k : k \in Keys(params)))

\* SHA-256 and HMAC-SHA256 as injective functions, lines 795-800
sha256Hex(data) == <<"sha256", data>>

hmac(key, data) == <<"hmac", key, data>>

\* amzDates, lines 801-812, of a clock in milliseconds: the time to the
\* second and the day
amzDates(now) == [amzDate |-> now \div 1000, dateStamp |-> now \div 86400000]

IMAGEX_REGION == "cn-north-1"

IMAGEX_SERVICE == "imagex"

\* the header names the signer may sign, in the order Array.prototype.sort
\* puts them
HeaderOrder == <<"host", "x-amz-content-sha256", "x-amz-date", "x-amz-security-token">>

\* the header names in the order headersMap was filled
NamesAsWritten(headersMap) == [i \in DOMAIN headersMap |-> headersMap[i][1]]

\* line 844: Object.keys(headersMap).sort()
SortedNames(headersMap) == SelectSeq(HeaderOrder, LAMBDA k : k \in Keys(headersMap))

\* buildAuthorization, lines 819-878, called when the clock shows `now`
\* with the credential cred (session token, access key, secret key) and
\* the default region and service; opts.given tells whether the caller
\* passes a payload hash
buildAuthorization(method, host, path, params, cred, opts, now) ==
  LET d == amzDates(now)
      sessionToken == cred.sessionToken
      canonicalQS == canonicalQuery(params)
      payloadHash == IF opts.given THEN opts.payloadHash ELSE sha256Hex(<<>>)
      headersMap ==
        << <<"host", host>>, <<"x-amz-date", d.amzDate>> >>
        \o (IF sessionToken # "" THEN <<<<"x-amz-security-token", sessionToken>>>> ELSE <<>>)
        \o (IF opts.signContentSha256 THEN <<<<"x-amz-content-sha256", payloadHash>>>> ELSE <<>>)
      headerNames == SortedNames(headersMap)
      canonicalHeaders ==
        [i \in DOMAIN headerNames |->
           <<headerNames[i], headersMap[IndexOf(headersMap, headerNames[i])][2]>>]
      signedHeaders == headerNames
      canonicalRequest ==
        <<method, path, canonicalQS, canonicalHeaders, signedHeaders, payloadHash>>
      region == IMAGEX_REGION
      service == IMAGEX_SERVICE
      credentialScope == <<d.dateStamp, region, service, "aws4_request">>
      stringToSign ==
        <<"AWS4-HMAC-SHA256", d.amzDate, credentialScope, sha256Hex(canonicalRequest)>>
      kDate == hmac(<<"AWS4", cred.secretKey>>, d.dateStamp)
      kRegion == hmac(kDate, region)
      kService == hmac(kRegion, service)
      kSigning == hmac(kService, "aws4_request")
      signature == hmac(kSigning, stringToSign)
  IN [authorization |->
        [algorithm |-> "AWS4-HMAC-SHA256", credential |-> <<cred.accessKey, credentialScope>>,
         signedHeaders |-> signedHeaders, signature |-> signature],
      amzDate |-> d.amzDate,
      payloadHash |-> payloadHash]

NoOpts == [given |-> FALSE, payloadHash |-> <<>>, signContentSha256 |-> FALSE]

\* one call of the signer and the request its caller sends with the result:
\* the query string of the URL and the headers (<<>> for a bare call)
Call(kind, method, params, cred, opts, at, out, query, headers) ==
  [kind |-> kind, method |-> method, params |-> params, cred |-> cred, opts |-> opts,
   at |-> at, out |-> out, query |-> query, headers |-> headers]

\* a query string in the order the object was written
RawQuery(params) == JoinQuery(params, [i \in DOMAIN params |-> params[i][1]])

\* lines 925 and 1093: the query string of the request URL
UrlQuery(params) == canonicalQuery(params)

\* applyImageUpload, lines 907-935 (the fixed values are shortened: "A" for
\* ApplyImageUpload, "C" for CommitImageUpload, "1" for 2018-08-01)
ApplyRequest(serviceId, uploadHost, cred, fileSize, fileExtension, now) ==
  LET params == << <<"Action", <<"A">>>>, <<"Version", <<"1">>>>,
                   <<"ServiceId", serviceId>>, <<"NeedFallback", <<"t">>>>,
                   <<"UploadNum", <<"1">>>>, <<"FileSize", fileSize>>,
                   <<"FileExtension", fileExtension>> >>
      out == buildAuthorization("GET", uploadHost, "/", params, cred, NoOpts, now)
  IN Call("apply", "GET", params, cred, NoOpts, now, out, UrlQuery(params),
          << <<"x-amz-date", out.amzDate>>,
             <<"x-amz-security-token", cred.sessionToken>>,
             <<"X-Security-Token", cred.sessionToken>>,
             <<"authorization", out.authorization>> >>)

\* commitImageUpload, lines 1051-1100; bodyStr is the JSON text of the body
CommitRequest(serviceId, uploadHost, cred, bodyStr, now) ==
  LET params == << <<"Action", <<"C">>>>, <<"Version", <<"1">>>>,
                   <<"ServiceId", serviceId>> >>
      payloadHash == sha256Hex(bodyStr)
      opts == [given |-> TRUE, payloadHash |-> payloadHash, signContentSha256 |-> TRUE]
      out == buildAuthorization("POST", uploadHost, "/", params, cred, opts, now)
  IN Call("commit", "POST", params, cred, opts, now, out, UrlQuery(params),
          << <<"x-amz-date", out.amzDate>>,
             <<"x-amz-security-token", cred.sessionToken>>,
             <<"x-amz-content-sha256", payloadHash>>,
             <<"content-type", "application/json">>,
             <<"authorization", out.authorization>> >>)

\* ------------------------------------------ SignSpec: calls of the signer
MaxCalls == 2
MaxTicks == 2

Values == { <<"a">>, <<" ">>, <<"%", "2", "0">> }

Creds ==
  { [sessionToken |-> t, accessKey |-> "ak", secretKey |-> "sk"] : t \in {"", "st"} }

\* parameter objects written out of sorted order
ParamObjects ==
  { << <<"ServiceId", v>>, <<"Action", <<"A">>>> >> : v \in Values }

SignInit ==
  /\ sign = [now |-> 0, calls |-> <<>>]
  /\ upload = Off
  /\ prep = Off
  /\ shape = Off
  /\ intake = Off
  /\ ChatOff

Record(call) ==
  /\ Len(sign.calls) < MaxCalls
  /\ sign' = [sign EXCEPT !.calls = Append(@, call)]
  /\ UNCHANGED <<chat, upload, prep, shape, intake>>

\* the clock advances by half a second
Advance ==
  /\ sign.now < MaxTicks * 500
  /\ sign' = [sign EXCEPT !.now = @ + 500]
  /\ UNCHANGED <<chat, upload, prep, shape, intake>>

\* a call of buildAuthorization on its own
Sign ==
  \E method \in {"GET", "POST"}, params \in ParamObjects, cred \in Creds :
    Record(Call("sign", method, params, cred, NoOpts, sign.now,
                buildAuthorization(method, "host", "/", params, cred, NoOpts, sign.now),
                <<>>, <<>>))

\* the options a caller may pass: a payload hash or none, content-hash
\* signing or not
OptsSet ==
  { [given |-> g, payloadHash |-> IF g THEN sha256Hex(<<"body">>) ELSE <<>>,
     signContentSha256 |-> c] : g \in BOOLEAN, c \in BOOLEAN }

\* a call of buildAuthorization with options
SignWithOpts ==
  \E opts \in OptsSet \ {NoOpts}, cred \in Creds :
    LET params == << <<"ServiceId", <<"a">>>>, <<"Action", <<"A">>>> >>
    IN Record(Call("sign", "POST", params, cred, opts, sign.now,
                   buildAuthorization("POST", "host", "/", params, cred, opts, sign.now),
                   <<>>, <<>>))

\* the Apply request of an upload, line 1178
SignedApply ==
  \E serviceId \in {<<"a">>, <<" ">>}, cred \in Creds :
    Record(ApplyRequest(serviceId, "host", cred, <<"1">>, <<".", "a">>, sign.now))

\* the Commit request of an upload, line 1195
SignedCommit ==
  \E serviceId \in {<<"a">>, <<" ">>}, cred \in Creds :
    Record(CommitRequest(serviceId, "host", cred, <<"body">>, sign.now))

SignNext ==
  \/ Advance
  \/ Sign
  \/ SignWithOpts
  \/ SignedApply
  \/ SignedCommit

SignSpec == SignInit /\ [][SignNext]_vars

\* ------------------------------------------ properties of the signer
SameSecond(a, b) == a.at \div 1000 = b.at \div 1000

ParamOf(c, k) == c.params[IndexOf(c.params, k)][2]

\* the same method, host, path, credential, options and parameter names
SameButValues(a, b) ==
  /\ a.kind = b.kind
  /\ a.method = b.method
  /\ a.cred = b.cred
  /\ a.opts = b.opts
  /\ Keys(a.params) = Keys(b.params)

Differing(a, b) == { k \in Keys(a.params) : ParamOf(a, k) # ParamOf(b, k) }

\* the canonical request under a signature: the signature is
\* hmac(kSigning, stringToSign) and stringToSign ends with its hash
SignedRequest(c) == c.out.authorization.signature[3][4][2]

HeaderOf(headers, name) == headers[IndexOf(headers, name)][2]

\* C18: two calls of buildAuthorization within the same second with the
\* same method, host, path, parameters and credential return the same
\* signature; two such calls that differ in exactly one parameter value
\* return different signatures.
C18_DeterministicQuerySensitive ==
  \A i, j \in DOMAIN sign.calls :
    LET a == sign.calls[i]
        b == sign.calls[j]
    IN SameSecond(a, b) /\ SameButValues(a, b) =>
         /\ Differing(a, b) = {} => a.out = b.out
         /\ Cardinality(Differing(a, b)) = 1 =>
              a.out.authorization.signature # b.out.authorization.signature

\* two calls half a second apart, one with ServiceId " " and one with
\* ServiceId "%20", and the same call made twice
C18_Witness ==
  /\ Len(sign.calls) = 2
  /\ sign.calls[1].at = 0
  /\ sign.calls[2].at = 500
  /\ SameButValues(sign.calls[1], sign.calls[2])
  /\ ParamOf(sign.calls[1], "ServiceId") = <<" ">>
  /\ ParamOf(sign.calls[2], "ServiceId") = <<"%", "2", "0">>
  /\ Differing(sign.calls[1], sign.calls[2]) = {"ServiceId"}

\* C19: for every Apply and Commit request the query string of the URL is
\* the canonical query string of the canonical request that was signed, the
\* x-amz-date header sent is the one signed, and for Commit the
\* x-amz-content-sha256 header sent is the one signed and the payload hash
\* of the canonical request.
C19_SentEqualsSigned ==
  \A i \in DOMAIN sign.calls :
    LET c == sign.calls[i]
        signed == SignedRequest(c)
    IN c.kind \in {"apply", "commit"} =>
         /\ c.query = signed[3]
         /\ HeaderOf(c.headers, "x-amz-date") = HeaderOf(signed[4], "x-amz-date")
         /\ c.kind = "commit" =>
              /\ HeaderOf(c.headers, "x-amz-content-sha256")
                   = HeaderOf(signed[4], "x-amz-content-sha256")
              /\ HeaderOf(c.headers, "x-amz-content-sha256") = signed[6]

\* an Apply and a Commit request for a service id that needs escaping
C19_Witness ==
  /\ Len(sign.calls) = 2
  /\ sign.calls[1].kind = "apply"
  /\ sign.calls[2].kind = "commit"
  /\ sign.calls[2].at = 500
  /\ ParamOf(sign.calls[1], "ServiceId") = <<" ">>
  /\ ParamOf(sign.calls[2], "ServiceId") = <<" ">>
  /\ sign.calls[2].cred.sessionToken = "st"

\* ============================================ the caller leaves early
\* CancelSpec: one attempt of createCompletionStream whose upstream answers
\* with an event stream, and a caller that may close the sequence it was
\* handed before it has ended.

\* the caller destroys the PassThrough it was handed: the stream emits
\* "close".  createTransStream registers no handler on transStream (lines
\* 1366-1493) and createCompletionStream none on response.data (lines
\* 360-370), so nothing else changes: the upstream stream stays open and
\* keeps feeding the parser
Abandon ==
  /\ mode = "live"
  /\ pc = "returned"
  /\ ctype = "sse"
  /\ ~trans.ended
  /\ ~trans.closed
  /\ trans' = [trans EXCEPT !.destroyed = TRUE, !.closed = TRUE]
  /\ UNCHANGED <<mode, pc, retryCount, attempts, elapsed, ctype, frames, pos,
                 up, recv, result, err, deleted, removal, refConvId, log, others>>

CancelInit ==
  /\ mode = "live"
  /\ pc = "requested"
  /\ retryCount = 0
  /\ attempts = 1
  /\ elapsed = 0
  /\ ctype = "sse"
  /\ frames \in Streams
  /\ pos = 0
  /\ up = "none"
  /\ recv = RecvInit
  /\ trans = TransIdle
  /\ result = NoResult
  /\ err = ""
  /\ deleted = <<>>
  /\ removal = <<>>
  /\ refConvId = ""
  /\ log = <<>>
  /\ upload = Off
  /\ prep = Off
  /\ sign = Off
  /\ shape = Off
  /\ intake = Off

CancelNext ==
  \/ StreamTranscode
  \/ TransData
  \/ TransError
  \/ TransClose
  \/ TransStreamClose
  \/ Abandon
  \/ RemoveResolves
  \/ RemoveRejects

\* the gateway's own steps are taken; what the upstream sends, and when, is
\* up to the upstream
CancelSpec ==
  /\ CancelInit
  /\ [][CancelNext]_vars
  /\ WF_vars(StreamTranscode)
  /\ WF_vars(TransStreamClose)

\* the caller closed the live sequence before it was ended
Abandoned == mode = "live" /\ trans.closed /\ ~trans.ended

\* ------------------------------------------------------------------ C21
\* C21: when the caller closes a live sequence before the upstream has
\* delivered a terminal frame, the upstream connection gets closed and the
\* deletion of the upstream conversation the stream has named is still
\* requested.
C21_AbandonClosesUpstreamAndCleans ==
  Abandoned ~> (up # "open" /\ (trans.convId = "" \/ deleted # <<>>))

\* ------------------------------------------------------------------ C22
\* an uploadFile call that has neither returned nor thrown
InFlight(r) == r.stage \notin {"done", "thrown"}

\* C22: the uploads of an attempt start together, and none of them is still
\* in flight when the attempt's payload is built and sent, when the attempt
\* has failed (and waits for its retry), or when the request has failed.
C22_AllUploadsSettledFirst ==
  /\ upload.pc = "sent" => \A i \in DOMAIN upload.run : ~InFlight(upload.run[i])
  /\ upload.pc \in {"backoff", "raised"} =>
       \A i \in DOMAIN upload.run : ~InFlight(upload.run[i])

\* ------------------------------------------------------------------ C23
\* the delta frames among frames[1..k] that name a conversation
Naming(k) == { j \in 1..k : frames[j].k \in {"D", "F"} /\ frames[j].cid # "" }

\* the conversation identifier the upstream supplied first
FirstConvId(k) == frames[CHOOSE j \in Naming(k) : \A i \in Naming(k) : j <= i].cid

\* C23: when the terminal frame of an error-free stream has been processed
\* and some frame up to and including it named the conversation, a deletion
\* request is issued for that identifier and for no other: in live mode by
\* the handler of the terminal frame, in buffered mode when the call returns.
C23_DoneDeletesConversation ==
  /\ (mode = "live" /\ ctype = "sse") =>
       \A k \in Dispatched(trans.nEvt) :
         (TerminalFirstAt(k) /\ Naming(k) # {}) =>
            /\ deleted # <<>>
            /\ \A i \in DOMAIN deleted : deleted[i] = FirstConvId(k)
  /\ (mode = "buffered" /\ ctype = "sse" /\ pc = "returned") =>
       \A k \in Dispatched(recv.nEvt) :
         (TerminalFirstAt(k) /\ Naming(k) # {}) =>
            /\ deleted # <<>>
            /\ \A i \in DOMAIN deleted : deleted[i] = FirstConvId(k)

\* ------------------------------------------------------------------ C24
\* frames[k] carries an error code or cannot be decoded, and no terminal or
\* failing frame precedes it
FailingFirstAt(k) ==
  /\ frames[k].k \in {"E", "X"}
  /\ \A j \in 1..(k - 1) : ~Conclusive(frames[j])

\* C24: once a frame with an upstream error code, or an undecodable frame,
\* has been processed, the frames after it change nothing: in live mode the
\* output stays what it was when the error was handled, no "stop" chunk is
\* written, the stream raises no error and endCallback is not called; in
\* buffered mode the promise stays rejected and no further text is
\* accumulated.
C24_ErrorIsAbsorbing ==
  /\ (mode = "live" /\ ctype = "sse") =>
       \A k \in Dispatched(trans.nEvt) : FailingFirstAt(k) =>
          /\ trans.out = <<Chunk(<<>>, "null")>> \o DeltaChunksTo(k - 1) \o <<BlankFrame>>
          /\ trans.endCalls = <<>>
          /\ deleted = <<>>
          /\ ~trans.errEmitted
  /\ (mode = "buffered" /\ ctype = "sse") =>
       \A k \in Dispatched(recv.nEvt) : FailingFirstAt(k) =>
          /\ recv.promise = "rejected"
          /\ recv.content = DeltaTextTo(k - 1)
          /\ ~recv.isEnd

\* ======================================= the text of a delta payload
\* A JSON value one level deep: its type and, for a string, its characters.
Leaf(t, s) == [t |-> t, s |-> s]

Absent == Leaf("absent", <<>>)

\* the `delta` member of a payload: its type and its own `text` member
Delta(t, text) == [t |-> t, text |-> text]

\* result.message.content as the callback meets it.  t: "none" no message
\* or an empty content; "nonstring" a content that is no string; "bad" a
\* string JSON.parse rejects (s: the string itself); "str" (s: the decoded
\* string), "num", "null", "obj": what JSON.parse returns.  The members
\* text, delta and content are those of an "obj".
Payload(t, s, text, delta, content) ==
  [t |-> t, s |-> s, text |-> text, delta |-> delta, content |-> content]

Scalar(t, s) == Payload(t, s, Absent, Delta("absent", Absent), Absent)

\* the outcome of the decoding: the text found, or the TypeError raised
Text(s) == [text |-> s, thrown |-> FALSE]

TypeError == [text |-> <<>>, thrown |-> TRUE]

\* `x &&`: undefined and null are falsy; the numbers and strings drawn here
\* are not
Truthy(t) == t \notin {"absent", "null"}

\* createTransStream, lines 1437-1449
TransText(m) ==
  IF m.t = "none" THEN Text(<<>>)
  ELSE IF m.t = "nonstring" THEN Text(<<>>)
  ELSE IF m.t = "bad" THEN Text(m.s)
  ELSE IF m.t = "str" THEN Text(m.s)
  ELSE IF m.t = "null" THEN TypeError
  ELSE IF m.text.t = "str" THEN Text(m.text.s)
  ELSE IF Truthy(m.delta.t) /\ m.delta.text.t = "str" THEN Text(m.delta.text.s)
  ELSE IF m.content.t = "str" THEN Text(m.content.s)
  ELSE Text(<<>>)

\* receiveStream, lines 1312-1324
RecvText(m) ==
  IF m.t = "none" THEN Text(<<>>)
  ELSE IF m.t = "nonstring" THEN Text(<<>>)
  ELSE IF m.t = "bad" THEN Text(m.s)
  ELSE IF m.t = "str" THEN Text(m.s)
  ELSE IF m.t = "null" THEN TypeError
  ELSE IF m.text.t = "str" THEN Text(m.text.s)
  ELSE IF Truthy(m.delta.t) /\ m.delta.text.t = "str" THEN Text(m.delta.text.s)
  ELSE IF m.content.t = "str" THEN Text(m.content.s)
  ELSE Text(<<>>)

\* ---------------------------------- ShapeSpec: one payload, both decoders
TextMembers == { Absent, Leaf("num", <<>>), Leaf("str", <<>>), Leaf("str", <<"t">>) }

DeltaMembers ==
  { Delta("absent", Absent), Delta("null", Absent), Delta("num", Absent),
    Delta("str", Absent), Delta("obj", Absent), Delta("obj", Leaf("num", <<>>)),
    Delta("obj", Leaf("str", <<"d">>)) }

ContentMembers == { Absent, Leaf("num", <<>>), Leaf("str", <<"c">>) }

Payloads ==
  { Scalar("none", <<>>), Scalar("nonstring", <<>>), Scalar("bad", <<"r">>),
    Scalar("str", <<>>), Scalar("str", <<"s">>), Scalar("num", <<>>),
    Scalar("null", <<>>) }
  \cup { Payload("obj", <<>>, t, d, c) :
           t \in TextMembers, d \in DeltaMembers, c \in ContentMembers }

NotRun == [text |-> <<>>, thrown |-> FALSE, ran |-> FALSE]

Ran(r) == [text |-> r.text, thrown |-> r.thrown, ran |-> TRUE]

ShapeInit ==
  /\ \E m \in Payloads : shape = [pc |-> "frame", message |-> m, recv |-> NotRun, trans |-> NotRun]
  /\ upload = Off
  /\ prep = Off
  /\ sign = Off
  /\ intake = Off
  /\ ChatOff

\* the frame reaches the parser callback of receiveStream
ShapeRecv ==
  /\ shape.pc = "frame"
  /\ ~shape.recv.ran
  /\ shape' = [shape EXCEPT !.recv = Ran(RecvText(shape.message))]
  /\ UNCHANGED <<chat, upload, prep, sign, intake>>

\* the same frame reaches the parser callback of createTransStream
ShapeTrans ==
  /\ shape.pc = "frame"
  /\ ~shape.trans.ran
  /\ shape' = [shape EXCEPT !.trans = Ran(TransText(shape.message))]
  /\ UNCHANGED <<chat, upload, prep, sign, intake>>

ShapeNext ==
  \/ ShapeRecv
  \/ ShapeTrans

ShapeSpec == ShapeInit /\ [][ShapeNext]_vars

\* ------------------------------------------------------------------ C25
\* the text the three shapes give, in their order: the decoded payload is a
\* string, it has a string member text, it has a member delta with a string
\* member text
FirstOfThree(m) ==
  IF m.t = "str" THEN m.s
  ELSE IF m.t = "obj" /\ m.text.t = "str" THEN m.text.s
  ELSE IF m.t = "obj" /\ m.delta.t = "obj" /\ m.delta.text.t = "str" THEN m.delta.text.s
  ELSE <<>>

\* C25: for every delta payload both decoders take the text of the first of
\* the three shapes that matches, and a payload that matches none of them
\* gives no text and raises no error.
C25_FirstMatchingShape ==
  /\ shape.recv.ran =>
       ~shape.recv.thrown /\ shape.recv.text = FirstOfThree(shape.message)
  /\ shape.trans.ran =>
       ~shape.trans.thrown /\ shape.trans.text = FirstOfThree(shape.message)
  /\ (shape.recv.ran /\ shape.trans.ran) => shape.recv = shape.trans

FileMessage == Msg("system", Str(<<FileHint>>))

\* the places of the system instruction in the history that is merged
HintsIn(ms) == { i \in DOMAIN ms : ms[i] = FileMessage }

\* the last message of the caller has a part of type file or image_url
LastHasFileOrImagePart(ms) ==
  /\ ms[Len(ms)].content.array
  /\ \E i \in DOMAIN ms[Len(ms)].content.parts :
       ms[Len(ms)].content.parts[i].type \in {"file", "image_url"}

\* C27: after a call of messagesPrepare the history it merges holds the
\* system instruction exactly when the caller gave two messages or more, no
\* conversation is continued and the last message has a file or image_url
\* part; it then holds it once, right before the last message, and is
\* otherwise the caller's history.
C27_OneInstructionBeforeLast ==
  (Prepared /\ prep.given # <<>>) =>
     IF Len(prep.given) >= 2 /\ ~prep.isRefConv /\ LastHasFileOrImagePart(prep.given)
     THEN /\ HintsIn(prep.messages) = {Len(prep.messages) - 1}
          /\ prep.messages =
               SubSeq(prep.given, 1, Len(prep.given) - 1)
                 \o <<FileMessage, prep.given[Len(prep.given)]>>
     ELSE prep.messages = prep.given

\* ============================================ the deferred deletion
\* CleanupSpec: one attempt, in either mode, of a request with or without a
\* conversation context id, answered with an error-free event stream.
CleanupStreams ==
  LET e == Frame("e", "D", "c1", <<"n">>)
      t == Frame("t", "T", "", <<>>)
  IN { <<e>>, <<e, t>>, <<e, e>>, <<t>> }

\* lines 192 / 295: an id that is not 24 letters or digits was reset to ""
CleanupInit ==
  /\ mode \in {"buffered", "live"}
  /\ refConvId \in {"", "0123456789abcdefghijklmn"}
  /\ pc = "requested"
  /\ retryCount = 0
  /\ attempts = 1
  /\ elapsed = 0
  /\ ctype = "sse"
  /\ frames \in CleanupStreams
  /\ pos = 0
  /\ up = "none"
  /\ recv = RecvInit
  /\ trans = TransIdle
  /\ result = NoResult
  /\ err = ""
  /\ deleted = <<>>
  /\ removal = <<>>
  /\ log = <<>>
  /\ upload = Off
  /\ prep = Off
  /\ sign = Off
  /\ shape = Off
  /\ intake = Off

CleanupNext ==
  \/ BufferedReceive
  \/ StreamTranscode
  \/ RecvData
  \/ TransData
  \/ RecvClose
  \/ TransClose
  \/ TransStreamClose
  \/ AwaitResolved
  \/ RemoveResolves
  \/ RemoveRejects

CleanupSpec == CleanupInit /\ [][CleanupNext]_vars

\* ------------------------------------------------------------------ C29
\* C29: a failed deletion of the upstream conversation leaves a log record,
\* in buffered and in live mode, whether or not the request carried a
\* conversation context id.
C29_FailedDeletionIsLogged ==
  Cardinality({ i \in DOMAIN removal : removal[i] = "rejected" }) = Len(log)

\* =========================================== the intake of an asset
\* IntakeSpec: the part of uploadFile before its try block, lines 1144-1165,
\* for one asset: the probe, then the bytes brought into memory.
FILE_MAX_SIZE == 104857600

\* source: "url" or "inline" (a data URI); bytes: the size of the content;
\* head: the status of the HEAD answer; length: its content-length (-1: no
\* such header); received: what the download has read; held: the size of
\* fileData
IntakeStart(source, bytes, length) ==
  [stage |-> "probe", source |-> source, bytes |-> bytes, length |-> length,
   head |-> 0, received |-> 0, held |-> 0, err |-> ""]

\* lines 1148-1153: Buffer.from(util.removeBASE64DataHeader(fileUrl), "base64")
DecodeInline(r) == [r EXCEPT !.held = r.bytes, !.stage = "sts"]

\* lines 1157-1164: axios.get with maxContentLength: FILE_MAX_SIZE reads n
\* more bytes; it fails once it has read more than the limit, and returns the
\* buffer when the content ends
Download(r, n) ==
  LET got == r.received + n
  IN IF got > FILE_MAX_SIZE
     THEN Thrown([r EXCEPT !.received = got], "ERR_BAD_RESPONSE")
     ELSE IF got = r.bytes
          THEN [r EXCEPT !.received = got, !.held = got, !.stage = "sts"]
          ELSE [r EXCEPT !.received = got]

IntakeSizes == { 1, FILE_MAX_SIZE, FILE_MAX_SIZE + 1, 2 * FILE_MAX_SIZE }

IntakeInit ==
  /\ \E source \in {"url", "inline"}, bytes \in IntakeSizes, length \in IntakeSizes \cup {-1} :
       /\ source = "inline" => length = -1
       /\ intake = IntakeStart(source, bytes, length)
  /\ upload = Off
  /\ prep = Off
  /\ sign = Off
  /\ shape = Off
  /\ ChatOff

\* line 1144: checkFileUrl returns at once for inline data (line 758) and
\* sends the HEAD request for a URL
IntakeProbe ==
  /\ intake.stage = "probe"
  /\ IF intake.source = "inline"
     THEN intake' = [intake EXCEPT !.stage = "decode"]
     ELSE \E status \in {200, 404} :
            intake' = checkFileUrl(intake, status,
                                   intake.length # -1 /\ intake.length > FILE_MAX_SIZE)
  /\ UNCHANGED <<chat, upload, prep, sign, shape>>

IntakeDecode ==
  /\ intake.stage = "decode"
  /\ intake' = DecodeInline(intake)
  /\ UNCHANGED <<chat, upload, prep, sign, shape>>

\* the next part of the download arrives: all that is left, or half of it
IntakeReceive ==
  /\ intake.stage = "fetch"
  /\ \E n \in { intake.bytes - intake.received, (intake.bytes - intake.received + 1) \div 2 } :
       intake' = Download(intake, n)
  /\ UNCHANGED <<chat, upload, prep, sign, shape>>

\* line 1174: the try block is entered and the credential requested
IntakeAcquire ==
  /\ intake.stage = "sts"
  /\ intake' = [intake EXCEPT !.stage = "apply"]
  /\ UNCHANGED <<chat, upload, prep, sign, shape>>

IntakeNext ==
  \/ IntakeProbe
  \/ IntakeDecode
  \/ IntakeReceive
  \/ IntakeAcquire

IntakeSpec == IntakeInit /\ [][IntakeNext]_vars

\* ------------------------------------------------------------------ C28
\* C28: the bytes uploadFile holds for an asset never exceed 100 MiB,
\* whether it comes from a URL (with or without a content-length in the
\* probe's answer) or from inline base64 data; an asset above the ceiling is
\* refused with a size or invalid-asset failure and never reaches the
\* credential, Apply or transfer phase.
C28_NeverAboveCeiling ==
  /\ intake.held <= FILE_MAX_SIZE
  /\ intake.bytes > FILE_MAX_SIZE =>
       /\ intake.stage \notin {"sts", "apply"}
       /\ intake.stage = "thrown" =>
            intake.err \in {"API_FILE_EXECEEDS_SIZE", "API_FILE_URL_INVALID", "ERR_BAD_RESPONSE"}

\* ------------------------------------------------------------------ C30
\* the canonical request a call signed: method, path, query, canonical
\* headers, signed header names, payload hash
CanonicalHeadersOf(c) == SignedRequest(c)[4]

\* the place of a header name in ascending order of code units
Rank(name) ==
  CASE name = "host" -> 1
    [] name = "x-amz-content-sha256" -> 2
    [] name = "x-amz-date" -> 3
    [] name = "x-amz-security-token" -> 4

\* C30: in every call of buildAuthorization the signed headers are host and
\* x-amz-date, x-amz-security-token exactly when the session token is not
\* empty, and x-amz-content-sha256 exactly when content-hash signing is
\* asked for; the canonical headers and the signed-header list name them in
\* the same, ascending order; the payload hash is the hash of the empty
\* string unless the caller passes one.
C30_SignedHeaderSet ==
  \A n \in DOMAIN sign.calls :
    LET c == sign.calls[n]
        canon == CanonicalHeadersOf(c)
        signed == c.out.authorization.signedHeaders
        hash == IF c.opts.given THEN c.opts.payloadHash ELSE sha256Hex(<<>>)
    IN /\ { signed[i] : i \in DOMAIN signed } =
            {"host", "x-amz-date"}
              \cup (IF c.cred.sessionToken # "" THEN {"x-amz-security-token"} ELSE {})
              \cup (IF c.opts.signContentSha256 THEN {"x-amz-content-sha256"} ELSE {})
       /\ signed = [i \in DOMAIN canon |-> canon[i][1]]
       /\ SignedRequest(c)[5] = signed
       /\ \A i \in DOMAIN signed : \A j \in DOMAIN signed : i < j => Rank(signed[i]) < Rank(signed[j])
       /\ c.out.payloadHash = hash
       /\ SignedRequest(c)[6] = hash
       /\ \A i \in DOMAIN canon : canon[i][1] = "x-amz-content-sha256" => canon[i][2] = hash

\* a call that signs all four headers over the hash of the empty string
C30_Witness ==
  \E n \in DOMAIN sign.calls :
    /\ sign.calls[n].opts.signContentSha256
    /\ ~sign.calls[n].opts.given
    /\ sign.calls[n].cred.sessionToken = "st"
    /\ Len(sign.calls[n].out.authorization.signedHeaders) = 4
    /\ sign.calls[n].out.payloadHash = sha256Hex(<<>>)

\* ------------------------------------------------- C31: one endCallback
\* C31: in live mode the end-of-stream callback is invoked at most once per
\* upstream stream, whatever the frames (also a delta frame with is_finish
\* followed by an event_type 2003 frame), so at most one deletion request is
\* issued for the stream.
C31_EndCallbackAtMostOnce ==
  mode = "live" => /\ Len(trans.endCalls) <= 1
                   /\ Len(deleted) <= 1

\* ------------------------------------------------------------------ C32
\* C32: packing is idempotent across retries: with the same upload results
\* every attempt of a request builds the same payload text as the first
\* one, and the history merged on a retry holds the system instruction
\* once.
C32_RetrySendsSamePayload ==
  Prepared =>
    /\ \A i \in DOMAIN prep.sent : prep.sent[i].text = prep.sent[1].text
    /\ Cardinality(HintsIn(prep.messages)) <= 1

\* ------------------------------------------------------------------ C33
\* C33: the calls leave the caller's message list unchanged: after any
\* number of calls of messagesPrepare for a request (the first attempt and
\* the retries) the array holds the messages the caller gave, as many of
\* them and in the same order.
C33_CallerMessagesUnchanged ==
  prep.pc # "off" =>
    /\ Len(prep.messages) = Len(prep.given)
    /\ prep.messages = prep.given

\* ============================================== the two modes, side by side
\* receiveStream and createTransStream each read one upstream response
\* with the same frames, delivered in the same data events: recv is the
\* closure of the buffered call, trans that of the live call
AgreeInit ==
  /\ mode = "both"
  /\ pc = "returned"
  /\ retryCount = 0
  /\ attempts = 1
  /\ elapsed = 0
  /\ ctype = "sse"
  /\ frames \in Streams
  /\ pos = 0
  /\ up = "open"
  /\ recv = RecvInit
  /\ trans = TransInit
  /\ result = NoResult
  /\ err = ""
  /\ deleted = <<>>
  /\ removal = <<>>
  /\ refConvId = ""
  /\ log = <<>>
  /\ upload = Off
  /\ prep = Off
  /\ sign = Off
  /\ shape = Off
  /\ intake = Off

\* a data event with the next n bytes reaches both calls
BothData ==
  /\ mode = "both"
  /\ up = "open"
  /\ \E n \in 1..(Len(Wire) - pos) :
       /\ pos' = pos + n
       /\ recv' = RecvOnData(recv, SubSeq(Wire, pos + 1, pos + n))
       /\ trans' = TransOnData(trans, SubSeq(Wire, pos + 1, pos + n))
  /\ deleted' = AfterEndCalls(trans, trans')
  /\ removal' = Issued(removal, deleted')
  /\ UNCHANGED <<mode, pc, retryCount, attempts, elapsed, ctype, frames, up,
                 result, err, refConvId, log, others>>

\* the upstream closes after its last byte
BothClose ==
  /\ mode = "both"
  /\ UpCanClose
  /\ up' = "closed"
  /\ recv' = RecvOnClose(recv)
  /\ trans' = TransOnClose(trans)
  /\ UNCHANGED <<mode, pc, retryCount, attempts, elapsed, ctype, frames, pos,
                 result, err, deleted, removal, refConvId, log, others>>

\* the PassThrough of the live call emits "close"
BothStreamClose ==
  /\ mode = "both"
  /\ trans.ended \/ trans.destroyed
  /\ ~trans.closed
  /\ trans' = [trans EXCEPT !.closed = TRUE, !.destroyed = TRUE]
  /\ UNCHANGED <<mode, pc, retryCount, attempts, elapsed, ctype, frames, pos,
                 up, recv, result, err, deleted, removal, refConvId, log, others>>

AgreeNext ==
  \/ BothData
  \/ BothClose
  \/ BothStreamClose

AgreeSpec == AgreeInit /\ [][AgreeNext]_vars

\* ------------------------------------------------------------------ C34
\* every frame of the stream is a delta, terminal or other-typed frame and
\* the last one is terminal
ErrorFreeTerminated ==
  /\ frames # <<>>
  /\ Terminal(frames[Len(frames)])
  /\ \A i \in DOMAIN frames : frames[i].k \notin {"E", "X"}

\* the place of the last chunk of the live sequence
FinalChunk == CHOOSE i \in DOMAIN trans.out :
                /\ trans.out[i].t = "chunk"
                /\ \A j \in DOMAIN trans.out : trans.out[j].t = "chunk" => j <= i

\* C34: on an error-free upstream frame sequence that ends with a terminal
\* frame both modes agree once the stream was read: the texts of the live
\* chunks, concatenated and without one trailing newline, are the content
\* receiveStream returns, and the id of the last live chunk is the id of
\* the buffered object.
C34_ModesAgree ==
  (mode = "both" /\ ErrorFreeTerminated /\ up = "closed") =>
       /\ WithoutOneNewline(ChunkText(trans.out)) = recv.content
       /\ trans.ids[FinalChunk] = recv.id

\* ========================================= conversations left upstream
\* the event streams of the attempts: a delta frame that names the
\* conversation, then nothing, an error-coded frame, an undecodable frame
\* or a terminal frame; and a finishing delta frame alone
LeakStreams ==
  { <<Frame("e", "D", "c1", <<"n">>)>>,
    <<Frame("e", "D", "c1", <<"n">>), Frame("x", "E", "", <<>>)>>,
    <<Frame("e", "D", "c1", <<"n">>), Frame("j", "X", "", <<>>)>>,
    <<Frame("e", "D", "c1", <<"n">>), Frame("t", "T", "", <<>>)>>,
    <<Frame("f", "F", "c2", <<>>)>> }

LeakSend == SendRequestOf(LeakStreams)

LeakNext ==
  \/ LeakSend
  \/ RequestThrows
  \/ BufferedBadContentType
  \/ BufferedReceive
  \/ StreamBadContentType
  \/ StreamTranscode
  \/ RecvData
  \/ TransData
  \/ RecvError
  \/ TransError
  \/ RecvClose
  \/ TransClose
  \/ TransStreamClose
  \/ AwaitResolved
  \/ AwaitRejected
  \/ Tick
  \/ Retry
  \/ RemoveResolves
  \/ RemoveRejects

\* the request with every pending step taken: timers fire, the upstream
\* delivers its bytes and closes or fails, continuations run
LeakSpec == Init /\ [][LeakNext]_vars /\ WF_vars(LeakNext)

\* the current attempt has recorded the conversation identifier c the
\* upstream supplied
Supplied(c) ==
  \/ mode = "buffered" /\ recv.id = c
  \/ mode = "live" /\ trans.convId = c

\* ------------------------------------------------------------------ C35
\* C35: no upstream conversation is leaked: once an attempt has been given
\* a conversation identifier by the upstream, a deletion request for that
\* identifier is eventually issued, also when the attempt ends with an
\* error-coded or undecodable frame, a stream error, a close without a
\* terminal frame, or is followed by a retry.
C35_NoConversationLeaked ==
  \A c \in {"c1", "c2"} :
    Supplied(c) ~> (\E i \in DOMAIN deleted : deleted[i] = c)

\* ============================================ the order of the attachments
\* a request in the attempt before its last, the order in which its
\* uploads settle recorded
OrderInit ==
  /\ \E as \in SeqsUpTo(AssetSet, MaxAssets) \ {<<>>} :
       upload = UploadStart(as, MAX_RETRY_COUNT - 1, TRUE)
  /\ prep = Off
  /\ sign = Off
  /\ shape = Off
  /\ intake = Off
  /\ ChatOff

OrderSpec == OrderInit /\ [][UploadNext]_vars

\* the i-th reference of the last message is an image whose upload returned
\* a reference with a committed key
UploadedImage(i) ==
  /\ upload.assets[i].isImage
  /\ upload.run[i].stage = "done"
  /\ ~upload.run[i].out.null
  /\ upload.run[i].out.url # <<>>
  /\ upload.run[i].out.url[1] = "tos-cn-i-"

\* the references the p-th attachment of the payload can come from
SourcesOf(p) ==
  { i \in DOMAIN upload.run :
      UploadedImage(i) /\ upload.run[i].out.url = upload.payload.attachments[p].key }

\* ------------------------------------------------------------------ C36
\* C36: whatever order the concurrent uploads settle in, the attachments
\* of the payload sent follow the order of the references in the last
\* message; each image uploaded with a committed key yields exactly one
\* attachment, and each attachment comes from exactly one such image and
\* carries its dimensions.
C36_AttachmentsInReferenceOrder ==
  upload.pc = "sent" =>
    LET atts == upload.payload.attachments
    IN /\ \A i \in DOMAIN upload.run :
            UploadedImage(i) => Cardinality({ p \in DOMAIN atts : i \in SourcesOf(p) }) = 1
       /\ \A p \in DOMAIN atts :
            /\ Cardinality(SourcesOf(p)) = 1
            /\ \A i \in SourcesOf(p) :
                 /\ atts[p].option.width = Dimension(upload.assets[i])
                 /\ atts[p].option.height = Dimension(upload.assets[i])
       /\ \A p, q \in DOMAIN atts :
            p < q => \A i \in SourcesOf(p), j \in SourcesOf(q) : i < j

\* a payload with the attachments of two images, the upload of the second
\* having settled before that of the first
C36_Witness ==
  /\ upload.pc = "sent"
  /\ upload.settled = <<2, 1>>
  /\ Len(upload.payload.attachments) = 2
  /\ upload.payload.attachments[1].key = upload.run[1].out.url
  /\ upload.payload.attachments[2].key = upload.run[2].out.url

\* ------------------------------------------------------------------ C37
\* the upload of the i-th asset returned the reference of a stored object
\* (not null, not the upload-failed placeholder)
UploadSucceeded(i) ==
  /\ upload.run[i].stage = "done"
  /\ ~upload.run[i].out.null
  /\ upload.run[i].out.url = upload.run[i].storeUri
  /\ upload.run[i].storeUri # <<>>

\* C37: every reference a successful upload returned is consumed into the
\* payload that is sent: the key of a successfully uploaded asset, image or
\* other file, is the key of one of the payload's attachments or one of its
\* references.
C37_EveryUploadConsumed ==
  upload.pc = "sent" =>
    \A i \in DOMAIN upload.run :
      UploadSucceeded(i) =>
        \/ \E p \in DOMAIN upload.payload.attachments :
             upload.payload.attachments[p].key = upload.run[i].out.url
        \/ \E q \in DOMAIN upload.payload.references :
             upload.payload.references[q] = upload.run[i].out

====
